---- MODULE Spec2Model ----
(***************************************************************************)
(* The day/night phase driver of "99 Nights in the Forest": TimeManager    *)
(* (phase accumulator), GameManager (global game state), NightManager      *)
(* (enemy waves) and the chat commands that drive them.                    *)
(*                                                                         *)
(* Times are milliseconds, as in the source.  All handlers run to          *)
(* completion on one event loop, so every handler is one atomic action.    *)
(***************************************************************************)
EXTENDS Integers, Sequences, FiniteSets, TLC

(***************************************************************************)
(* Program constants                                                       *)
(***************************************************************************)
MORNING == "morning"
AFTERNOON == "afternoon"
EVENING == "evening"
NIGHT == "night"
DAWN == "dawn"

\* the order of the keys of PHASE_DURATIONS_MS, which is also the order of
\* the array in skipToNextPhase
phases == <<MORNING, AFTERNOON, EVENING, NIGHT, DAWN>>

DayPhase == {MORNING, AFTERNOON, EVENING, NIGHT, DAWN}

PHASE_DURATIONS_MS ==
  [p \in DayPhase |->
     CASE p = MORNING -> 4 * 60 * 1000
       [] p = AFTERNOON -> 3 * 60 * 1000
       [] p = EVENING -> 1 * 60 * 1000
       [] p = NIGHT -> 5 * 60 * 1000
       [] p = DAWN -> 1 * 60 * 1000]

CYCLE_DURATION_MS == 14 * 60 * 1000

\* NightManager.maxConcurrentEnemies
maxConcurrentEnemies == 15

bossNights == {10, 25, 50, 75, 99}

\* config/enemies.json as documented: the minNight of the normal enemy
\* types and the two bosses spawnBoss looks up
enemyMinNight == [wispling |-> 1, feral_sprout |-> 3, shadow_wolf |-> 7]

\* Object.values(enemiesConfig): the normal enemy types in the order of the file
enemyIds == <<"wispling", "feral_sprout", "shadow_wolf">>

bossIds == {"hollow_stag", "ancient_guardian"}

(***************************************************************************)
(* Bounds of the model                                                     *)
(***************************************************************************)
\* nights 1..MaxNight and the last night are played through by the cycle
MaxNight == 2

\* the wall-clock time between two ticks of the 1 s interval timer when the
\* event loop keeps up: less than the shortest phase
OnTimeDeltas == {30000}

\* the same when the process was held up for a minute or more
LateDeltas == {60000, 90000}

\* arguments of /skipnight: below the range, in the range, above it
SkipNightArgs == {0, 2, 99, 100}

\* arguments of direct calls of NightManager.startNight
StartNightArgs == 1..99

\* the player entities in the world
PlayerIds == {"p1", "p2"}

\* the number of inventory and crafting calls made in a run
MaxOps == 3

\* interactions with the resource nodes in one behaviour
MaxNodeOps == 2

\* calls of equipRune and unequipRune in one behaviour
MaxRuneOps == 4

\* calls of addXP, takeDamage and heal, timer callbacks and departures of
\* players in one behaviour
MaxStatOps == 3

\* Date.now() when the server starts, and the last time the clock of the
\* model reaches
StartTimes == {100000}

MaxClock == 102500

\* the time that passes between two events, in ms
ClockDeltas == {499, 500, 501}

\* Math.random() yields one of 0/6, 1/6 .. 5/6
RandomScale == 6

RandomDraws == 0..(RandomScale - 1)

\* arguments of equipRune and unequipRune: the runes of runes.json and an
\* id that is no rune
RuneArgs == {"rune_vine_snare", "rune_moonlight_burst", "rune_ember_leaf",
             "rune_dust"}

\* arguments of addItemToInventory: one unit, a last stack, as many torches
\* as fill the 22 slots the starter items leave, as many as fill them but
\* for half a stack, and an unknown item
AddArgs ==
  {<<"wood", 1>>, <<"torch", 10>>, <<"torch", 220>>, <<"torch", 215>>,
   <<"healing_potion", 1>>, <<"gold", 1>>}

\* arguments of removeItemFromInventory: part of a stack, a stack and a
\* half, and more than the player has
RemoveArgs == {<<"torch", 5>>, <<"torch", 15>>, <<"wood", 3>>, <<"wood", 99>>}

\* arguments of useItem
UseArgs == {"healing_potion", "wood", "gold"}

\* arguments of transferItems: from, to, item, quantity
TransferArgs ==
  {<<"p1", "p2", "torch", 10>>, <<"p1", "p2", "wood", 10>>,
   <<"p2", "p1", "stone", 5>>}

\* arguments of tryCraft
CraftArgs == {"craft_torch", "craft_nothing"}

\* arguments of addItemToInventory that fill the 24 slots of a player who
\* has the starter items with wood, but for 3 units and wholly
FillArgs == {<<"wood", 2264>>, <<"wood", 2267>>}

VARIABLES
  currentPhase,        \* TimeManager.currentPhase
  elapsedMs,           \* TimeManager.elapsedMs
  isRunning,           \* TimeManager._isRunning
  tickInterval,        \* TimeManager.tickInterval: TRUE when the timer is set
  tickTimers,          \* the setInterval timers of TimeManager.start that are live
  gameState,           \* GameManager.gameState
  savedGameState,      \* the global data 'gameState' of the host: <<>> or one state
  stopCallback,        \* victoryGame's import('./TimeManager').then(stop) is pending
  audio,               \* AudioManager: currentState, currentMusic and the
                       \* tracks that are playing
  musicCallbacks,      \* the pending import('./AudioManager').then(...) callbacks,
                       \* each with the music state it switches to
  boss,                \* the boss entity: "none", "tracked" (in activeEnemies)
                       \* or "untracked"
  isNightActive,       \* NightManager.isNightActive
  spawnInterval,       \* NightManager.spawnInterval: {} or one timer
  spawnTimers,         \* the number of spawn timers that setInterval created and
                       \* clearInterval has not cancelled
  enemiesSpawned,      \* NightManager.enemiesSpawned
  activeEnemies,       \* NightManager.activeEnemies.size
  maxEnemiesThisNight, \* NightManager.maxEnemiesThisNight
  spawnLog,            \* history: the night of the last startNight and the
                       \* entities spawned since
  phaseEntry,          \* history: how currentPhase got its value, and from which phase
  lastSpawned,         \* history: the enemy type the last step spawned from the
                       \* spawn timer while the spawns were observed, or "none"
  players,             \* the GamePlayerEntity objects, by entity id
  activeCrafts,        \* CraftingManager.activeCrafts, by String(player.id)
  craftTimers,         \* the pending setTimeout callbacks of tryCraft
  lastCall,            \* history: the last inventory or crafting call and
                       \* what it returned
  opCount,             \* history: the number of calls made so far
  resourceNode,        \* a tree that is a ResourceNodeEntity
  baseResource,        \* a tree that is a TreeEntity (BaseResourceEntity)
  resourcesGathered,   \* GameManager.gameStats.resourcesGathered
  yields,              \* history: for each of the two trees, the gathers
                       \* that gave items since it last became available
  persistedData,       \* player.getPersistedData(), by player: <<>> or one PlayerData
  enemy,               \* a BaseEnemyEntity
  now,                 \* Date.now()
  damageLog            \* history: the damage applications of the enemy so far
                       \* and the time of the last one

vars == <<currentPhase, elapsedMs, isRunning, tickInterval, tickTimers,
          gameState, savedGameState, stopCallback, audio, musicCallbacks,
          boss, isNightActive, spawnInterval, spawnTimers, enemiesSpawned,
          activeEnemies, maxEnemiesThisNight, spawnLog, phaseEntry,
          lastSpawned,
          players, activeCrafts, craftTimers, lastCall, opCount,
          resourceNode, baseResource, resourcesGathered, yields,
          persistedData, enemy, now, damageLog>>

\* the state of the TimeManager, the GameManager and the NightManager
gameVars == <<currentPhase, elapsedMs, isRunning, tickInterval, tickTimers,
              gameState, savedGameState, stopCallback, audio, musicCallbacks,
              boss, isNightActive, spawnInterval, spawnTimers, enemiesSpawned,
              activeEnemies, maxEnemiesThisNight, spawnLog, phaseEntry,
              lastSpawned>>

\* the state of the players and of the CraftingManager
playVars == <<players, activeCrafts, craftTimers, lastCall, opCount>>

\* the state of the resource nodes
nodeVars == <<resourceNode, baseResource, resourcesGathered, yields>>

\* the saved players, the enemy and the clock
combatVars == <<persistedData, enemy, now, damageLog>>

\* the whole state as one record, threaded through the handlers
Cur ==
  [currentPhase |-> currentPhase, elapsedMs |-> elapsedMs,
   isRunning |-> isRunning, tickInterval |-> tickInterval,
   tickTimers |-> tickTimers,
   gameState |-> gameState, savedGameState |-> savedGameState,
   stopCallback |-> stopCallback, audio |-> audio,
   musicCallbacks |-> musicCallbacks, boss |-> boss,
   isNightActive |-> isNightActive, spawnInterval |-> spawnInterval,
   spawnTimers |-> spawnTimers,
   enemiesSpawned |-> enemiesSpawned, activeEnemies |-> activeEnemies,
   maxEnemiesThisNight |-> maxEnemiesThisNight, spawnLog |-> spawnLog,
   phaseEntry |-> phaseEntry, lastSpawned |-> "none", random |-> 0,
   observed |-> FALSE]

\* the TimeManager, the GameManager and the NightManager get the state S
BecomesGame(S) ==
  /\ currentPhase' = S.currentPhase
  /\ elapsedMs' = S.elapsedMs
  /\ isRunning' = S.isRunning
  /\ tickInterval' = S.tickInterval
  /\ tickTimers' = S.tickTimers
  /\ gameState' = S.gameState
  /\ savedGameState' = S.savedGameState
  /\ stopCallback' = S.stopCallback
  /\ audio' = S.audio
  /\ musicCallbacks' = S.musicCallbacks
  /\ boss' = S.boss
  /\ isNightActive' = S.isNightActive
  /\ spawnInterval' = S.spawnInterval
  /\ spawnTimers' = S.spawnTimers
  /\ enemiesSpawned' = S.enemiesSpawned
  /\ activeEnemies' = S.activeEnemies
  /\ maxEnemiesThisNight' = S.maxEnemiesThisNight
  /\ spawnLog' = S.spawnLog
  /\ phaseEntry' = S.phaseEntry
  /\ lastSpawned' = IF S.observed THEN S.lastSpawned ELSE "none"

Becomes(S) ==
  /\ BecomesGame(S)
  /\ UNCHANGED playVars
  /\ UNCHANGED <<nodeVars, combatVars>>

\* the history of a handler that took the state S0 to S1
Entered(by, S0, S1) ==
  IF S1.currentPhase # S0.currentPhase
  THEN [S1 EXCEPT !.phaseEntry = [by |-> by, from |-> S0.currentPhase]]
  ELSE S1

(***************************************************************************)
(* AudioManager                                                            *)
(***************************************************************************)
MusicState == {"day", "evening", "night", "boss", "victory"}

\* the AudioManager as constructed and initialised: no track plays
NewAudio == [currentState |-> "day", currentMusic |-> "none", playing |-> {}]

\* every music state has a preloaded track, so newMusic is always found
switchMusic(S, state) ==
  IF S.audio.currentState = state /\ S.audio.currentMusic # "none"
  THEN S
  ELSE [S EXCEPT !.audio =
          [currentState |-> state, currentMusic |-> state,
           playing |-> (@.playing \ {@.currentMusic}) \cup {state}]]

stateMap ==
  [p \in DayPhase |->
     IF p = EVENING THEN "evening" ELSE IF p = NIGHT THEN "night" ELSE "day"]

updateMusicForPhase(S, phase) == switchMusic(S, stateMap[phase])

\* import('./AudioManager').then(...): the switch to `state` runs later
thenSwitchMusic(S, state) ==
  [S EXCEPT !.musicCallbacks = Append(@, state)]

(***************************************************************************)
(* GameManager                                                             *)
(***************************************************************************)
DefaultGameState ==
  [isStarted |-> FALSE, currentNight |-> 1, currentPhase |-> MORNING,
   campLevel |-> 1]

\* setGlobalData('gameState', this.gameState) is called before the first
\* await: the host gets the state as it is now
saveGameState(S) == [S EXCEPT !.savedGameState = <<S.gameState>>]

victoryGame(S) ==
  LET S1 == thenSwitchMusic(S, "victory")
  IN saveGameState([S1 EXCEPT !.gameState.isStarted = FALSE,
                              !.stopCallback = TRUE])

\* mutant: the night after the 99th is a night like the others
advanceNightPast99(S) ==
  saveGameState([S EXCEPT !.gameState.currentNight = @ + 1])

advanceNight(S) ==
  LET S1 == [S EXCEPT !.gameState.currentNight = @ + 1]
  IN IF S1.gameState.currentNight > 99
     THEN victoryGame(S1)
     ELSE saveGameState(S1)

startGame(S) ==
  IF S.gameState.isStarted
  THEN S
  ELSE saveGameState([S EXCEPT !.gameState.isStarted = TRUE,
                               !.gameState.currentNight = 1,
                               !.gameState.currentPhase = MORNING])

resetGame(S) == saveGameState([S EXCEPT !.gameState = DefaultGameState])

setPhase(S, phase) == [S EXCEPT !.gameState.currentPhase = phase]

(***************************************************************************)
(* NightManager                                                            *)
(***************************************************************************)
Min(a, b) == IF a < b THEN a ELSE b

Max(a, b) == IF a > b THEN a ELSE b

\* mutant: the cap is not clamped
calculateMaxEnemiesUnclamped(nightNumber) == 10 + nightNumber * 2

calculateMaxEnemies(nightNumber) == Min(50, 10 + nightNumber * 2)

calculateSpawnRate(nightNumber) == Max(1500, 5000 - nightNumber * 100)

\* mutant: the last boss night is forgotten
isBossNightWithout99(nightNumber) == nightNumber \in {10, 25, 50, 75}

isBossNight(nightNumber) == nightNumber \in bossNights

\* the enemy types spawnEnemy filters out of enemiesConfig
\* mutant: minNight is not looked at
everyEnemy(nightNumber) == enemyIds

availableEnemies(nightNumber) ==
  LET old(e) == enemyMinNight[e] <= nightNumber
  IN SelectSeq(enemyIds, old)

\* Math.random() is S.random / RandomScale
spawnEnemy(S, nightNumber) ==
  IF availableEnemies(nightNumber) = <<>>
  THEN S
  ELSE LET index == (S.random * Len(availableEnemies(nightNumber))) \div RandomScale
       IN [S EXCEPT !.activeEnemies = @ + 1, !.spawnLog.normal = @ + 1,
                    !.lastSpawned = availableEnemies(nightNumber)[index + 1]]

bossIdFor(nightNumber) ==
  IF nightNumber >= 99 THEN "ancient_guardian"
  ELSE IF nightNumber >= 75 THEN "ancient_guardian"
  ELSE IF nightNumber >= 50 THEN "hollow_stag"
  ELSE IF nightNumber >= 25 THEN "hollow_stag"
  ELSE "hollow_stag"

spawnBoss(S, nightNumber) ==
  IF bossIdFor(nightNumber) \notin bossIds
  THEN S
  ELSE [S EXCEPT !.activeEnemies = @ + 1, !.enemiesSpawned = @ + 1,
                 !.spawnLog.boss = @ + 1, !.boss = "tracked"]

\* if (this.spawnInterval) { clearInterval(this.spawnInterval); ... }
clearSpawnInterval(S) ==
  IF S.spawnInterval # {}
  THEN [S EXCEPT !.spawnInterval = {}, !.spawnTimers = @ - 1]
  ELSE S

\* setInterval(..., spawnRateMs): the timer remembers the night it was
\* created for
startSpawning(S, nightNumber, spawnRateMs) ==
  [S EXCEPT !.spawnInterval = {[night |-> nightNumber, rateMs |-> spawnRateMs]},
            !.spawnTimers = @ + 1]

\* mutant: a night is started whether or not one is active
startNightAgain(S, nightNumber) ==
  IF FALSE
  THEN S
  ELSE LET S1 == [S EXCEPT !.isNightActive = TRUE, !.enemiesSpawned = 0,
                           !.activeEnemies = 0,
                           !.boss = IF @ = "tracked" THEN "untracked" ELSE @,
                           !.spawnLog = [night |-> nightNumber, normal |-> 0,
                                         boss |-> 0]]
       IN IF isBossNight(nightNumber)
          THEN [spawnBoss(thenSwitchMusic(S1, "boss"), nightNumber)
                  EXCEPT !.maxEnemiesThisNight = 1]
          ELSE startSpawning(
                 [S1 EXCEPT !.maxEnemiesThisNight = calculateMaxEnemies(nightNumber)],
                 nightNumber, calculateSpawnRate(nightNumber))

startNight(S, nightNumber) ==
  IF S.isNightActive
  THEN S
  ELSE LET S1 == [S EXCEPT !.isNightActive = TRUE, !.enemiesSpawned = 0,
                           !.activeEnemies = 0,
                           !.boss = IF @ = "tracked" THEN "untracked" ELSE @,
                           !.spawnLog = [night |-> nightNumber, normal |-> 0,
                                         boss |-> 0]]
       IN IF isBossNight(nightNumber)
          THEN [spawnBoss(thenSwitchMusic(S1, "boss"), nightNumber)
                  EXCEPT !.maxEnemiesThisNight = 1]
          ELSE startSpawning(
                 [S1 EXCEPT !.maxEnemiesThisNight = calculateMaxEnemies(nightNumber)],
                 nightNumber, calculateSpawnRate(nightNumber))

\* mutant: the spawn timer is left running
endNightKeepsTimer(S) ==
  IF ~S.isNightActive
  THEN S
  ELSE [S EXCEPT !.isNightActive = FALSE, !.activeEnemies = 0]

\* boss.on('despawn'): the boss left the world
bossDespawnCallback(S) ==
  thenSwitchMusic(
    [S EXCEPT !.activeEnemies = IF S.boss = "tracked" THEN @ - 1 ELSE @,
              !.boss = "none"],
    "night")

\* every tracked enemy is despawned; its despawn callback takes it out of
\* the set, and the set is cleared
endNight(S) ==
  IF ~S.isNightActive
  THEN S
  ELSE LET S1 == clearSpawnInterval([S EXCEPT !.isNightActive = FALSE])
           S2 == IF S1.boss = "tracked" THEN bossDespawnCallback(S1) ELSE S1
       IN [S2 EXCEPT !.activeEnemies = 0]

\* mutant: the per-night cap is compared with > instead of >=
spawnTickPastCap(S, t) ==
  IF S.enemiesSpawned > S.maxEnemiesThisNight
  THEN clearSpawnInterval(S)
  ELSE IF S.activeEnemies >= maxConcurrentEnemies
  THEN S
  ELSE [spawnEnemy(S, t.night) EXCEPT !.enemiesSpawned = @ + 1]

\* mutant: the concurrent-enemy limit is compared with > instead of >=
spawnTickPastLimit(S, t) ==
  IF S.enemiesSpawned >= S.maxEnemiesThisNight
  THEN clearSpawnInterval(S)
  ELSE IF S.activeEnemies > maxConcurrentEnemies
  THEN S
  ELSE [spawnEnemy(S, t.night) EXCEPT !.enemiesSpawned = @ + 1]

\* the callback of the spawn timer t
spawnTick(S, t) ==
  IF S.enemiesSpawned >= S.maxEnemiesThisNight
  THEN clearSpawnInterval(S)
  ELSE IF S.activeEnemies >= maxConcurrentEnemies
  THEN S
  ELSE [spawnEnemy(S, t.night) EXCEPT !.enemiesSpawned = @ + 1]

\* enemy.on('despawn'): a tracked enemy left the world
despawnCallback(S) == [S EXCEPT !.activeEnemies = @ - 1]

(***************************************************************************)
(* TimeManager                                                             *)
(***************************************************************************)
RECURSIVE SumDurations(_)
\* PHASE_DURATIONS_MS of phases[1..k] added up
SumDurations(k) ==
  IF k = 0 THEN 0 ELSE SumDurations(k - 1) + PHASE_DURATIONS_MS[phases[k]]

indexOf(phase) == CHOOSE i \in 1..Len(phases) : phases[i] = phase

\* mutant: start does not look at _isRunning
startWhileRunning(S) ==
  [S EXCEPT !.isRunning = TRUE, !.elapsedMs = 0,
            !.currentPhase = MORNING, !.tickInterval = TRUE,
            !.tickTimers = @ + 1]

\* setInterval makes a timer and tickInterval holds its handle
start(S) ==
  IF S.isRunning
  THEN S
  ELSE [S EXCEPT !.isRunning = TRUE, !.elapsedMs = 0,
                 !.currentPhase = MORNING, !.tickInterval = TRUE,
                 !.tickTimers = @ + 1]

\* clearInterval ends the timer that tickInterval is the handle of
stop(S) ==
  IF ~S.isRunning
  THEN S
  ELSE [S EXCEPT !.isRunning = FALSE, !.tickInterval = FALSE,
                 !.tickTimers = IF S.tickInterval THEN @ - 1 ELSE @]

\* mutant: the victory handler forgets to stop the cycle
onVictoryKeepsRunning(S) == S

onVictory(S) == thenSwitchMusic(stop(S), "day")

onCycleComplete(S) ==
  LET previousNight == S.gameState.currentNight
      S1 == advanceNight(S)
      nextNight == S1.gameState.currentNight
  IN IF previousNight = 99 /\ nextNight = 100 THEN onVictory(S1) ELSE S1

onNightBegin(S) == startNight(S, S.gameState.currentNight)

onNightEnd(S) == endNight(S)

onPhaseChange(S, newPhase) ==
  LET S1 == updateMusicForPhase(
              setPhase([S EXCEPT !.currentPhase = newPhase], newPhase),
              newPhase)
  IN IF newPhase = NIGHT THEN onNightBegin(S1)
     ELSE IF newPhase = DAWN THEN onNightEnd(S1)
     ELSE S1

\* mutant: the end of a bracket is counted into it
phaseOfElapsedInclusive(e) ==
  phases[CHOOSE i \in 1..Len(phases) :
           /\ e <= SumDurations(i)
           /\ \A j \in 1..(i - 1) : ~(e <= SumDurations(j))]

\* the first phase whose accumulated duration exceeds the elapsed time
phaseOfElapsed(e) ==
  phases[CHOOSE i \in 1..Len(phases) :
           /\ e < SumDurations(i)
           /\ \A j \in 1..(i - 1) : ~(e < SumDurations(j))]

\* returns the phase and the state the call leaves behind
calculatePhase(S) ==
  IF \E i \in 1..Len(phases) : S.elapsedMs < SumDurations(i)
  THEN [phase |-> phaseOfElapsed(S.elapsedMs), state |-> S]
  ELSE [phase |-> MORNING,
        state |-> onCycleComplete([S EXCEPT !.elapsedMs = 0])]

tick(S, delta) ==
  IF ~S.isRunning
  THEN S
  ELSE LET r == calculatePhase([S EXCEPT !.elapsedMs = @ + delta])
       IN IF r.phase # r.state.currentPhase
          THEN onPhaseChange(r.state, r.phase)
          ELSE r.state

\* mutant: the next phase is taken one index too far
skipToNextPhaseTooFar(S) ==
  LET currentIndex == indexOf(S.currentPhase)
      nextPhase == phases[((currentIndex + 1) % Len(phases)) + 1]
  IN onPhaseChange([S EXCEPT !.elapsedMs = SumDurations(currentIndex)], nextPhase)

\* `if (!this.isRunning) return;` tests the method isRunning, not its result:
\* a function is truthy, so the early return is never taken
skipToNextPhase(S) ==
  LET currentIndex == indexOf(S.currentPhase)
      nextPhase == phases[(currentIndex % Len(phases)) + 1]
  IN onPhaseChange([S EXCEPT !.elapsedMs = SumDurations(currentIndex)], nextPhase)

(***************************************************************************)
(* Items and recipes.  config/items.json and config/recipes.json are read  *)
(* at start-up; the entries are the documented ones.  healing_potion is    *)
(* the one consumable useItem knows.                                       *)
(***************************************************************************)
MAX_INVENTORY_SLOTS == 24

MAX_RUNE_SLOTS == 3

itemsConfig ==
  [wood           |-> [maxStack |-> 99, type |-> "resource"],
   stone          |-> [maxStack |-> 99, type |-> "resource"],
   torch          |-> [maxStack |-> 10, type |-> "tool"],
   healing_potion |-> [maxStack |-> 10, type |-> "consumable"]]

recipesConfig ==
  [craft_torch |->
     [inputs    |-> <<[itemId |-> "wood", quantity |-> 2]>>,
      output    |-> [itemId |-> "torch", quantity |-> 1],
      craftTime |-> 2000]]

(***************************************************************************)
(* GamePlayerEntity.  A player is a record P; an operation that returns a  *)
(* value gives [P |-> the player after it, ok |-> the value].              *)
(***************************************************************************)
\* the entity as constructed, before its spawn handler ran
NewPlayer ==
  [spawned |-> FALSE, health |-> 100, maxHealth |-> 100, stamina |-> 100,
   maxStamina |-> 100, level |-> 1, xp |-> 0, inventory |-> <<>>,
   runes |-> <<>>, respawnTimers |-> 0]

\* the first loop of addItemToInventory, from slot i on
RECURSIVE stackExisting(_, _, _, _, _)
stackExisting(inv, i, itemId, maxStack, remaining) ==
  IF i > Len(inv)
  THEN [inventory |-> inv, remaining |-> remaining, returned |-> FALSE]
  ELSE IF inv[i].itemId = itemId /\ inv[i].quantity < maxStack
  THEN LET canAdd == Min(remaining, maxStack - inv[i].quantity)
           inv2 == [inv EXCEPT ![i].quantity = @ + canAdd]
       IN  IF remaining - canAdd = 0
           THEN [inventory |-> inv2, remaining |-> 0, returned |-> TRUE]
           ELSE stackExisting(inv2, i + 1, itemId, maxStack, remaining - canAdd)
  ELSE stackExisting(inv, i + 1, itemId, maxStack, remaining)

\* the while loop of addItemToInventory
RECURSIVE createSlots(_, _, _, _)
createSlots(inv, itemId, maxStack, remaining) ==
  IF remaining > 0 /\ Len(inv) < MAX_INVENTORY_SLOTS
  THEN LET stackSize == Min(remaining, maxStack)
       IN  createSlots(Append(inv, [itemId |-> itemId, quantity |-> stackSize]),
                       itemId, maxStack, remaining - stackSize)
  ELSE [inventory |-> inv, remaining |-> remaining]

\* mutant: the units go into one new slot, whatever its size and the
\* number of slots
addItemInOneSlot(P, itemId, quantity) ==
  IF itemId \notin DOMAIN itemsConfig
  THEN [P |-> P, ok |-> FALSE]
  ELSE [P |-> [P EXCEPT !.inventory =
                  Append(@, [itemId |-> itemId, quantity |-> quantity])],
        ok |-> TRUE]

\* mutant: a placement that does not fit is rolled back
addItemRolledBack(P, itemId, quantity) ==
  IF itemId \notin DOMAIN itemsConfig
  THEN [P |-> P, ok |-> FALSE]
  ELSE LET maxStack == itemsConfig[itemId].maxStack
           a == stackExisting(P.inventory, 1, itemId, maxStack, quantity)
           b == createSlots(a.inventory, itemId, maxStack, a.remaining)
       IN  IF a.returned
           THEN [P |-> [P EXCEPT !.inventory = a.inventory], ok |-> TRUE]
           ELSE IF b.remaining = 0
           THEN [P |-> [P EXCEPT !.inventory = b.inventory], ok |-> TRUE]
           ELSE [P |-> P, ok |-> FALSE]

addItemToInventory(P, itemId, quantity) ==
  IF itemId \notin DOMAIN itemsConfig
  THEN [P |-> P, ok |-> FALSE]
  ELSE LET maxStack == itemsConfig[itemId].maxStack
           a == stackExisting(P.inventory, 1, itemId, maxStack, quantity)
           b == createSlots(a.inventory, itemId, maxStack, a.remaining)
       IN  IF a.returned
           THEN [P |-> [P EXCEPT !.inventory = a.inventory], ok |-> TRUE]
           ELSE [P |-> [P EXCEPT !.inventory = b.inventory],
                 ok |-> b.remaining = 0]

\* inventory.splice(i, 1)
splice(inv, i) == SubSeq(inv, 1, i - 1) \o SubSeq(inv, i + 1, Len(inv))

\* the loop of removeItemFromInventory, from slot i down
RECURSIVE removeFromSlots(_, _, _, _)
removeFromSlots(inv, i, itemId, remaining) ==
  IF i < 1
  THEN [inventory |-> inv, ok |-> remaining = 0]
  ELSE IF inv[i].itemId = itemId
  THEN LET canRemove == Min(remaining, inv[i].quantity)
           left == inv[i].quantity - canRemove
           inv2 == IF left = 0
                   THEN splice(inv, i)
                   ELSE [inv EXCEPT ![i].quantity = left]
       IN  IF remaining - canRemove = 0
           THEN [inventory |-> inv2, ok |-> TRUE]
           ELSE removeFromSlots(inv2, i - 1, itemId, remaining - canRemove)
  ELSE removeFromSlots(inv, i - 1, itemId, remaining)

\* mutant: only the last slot of the inventory is looked at
removeFromLastSlot(P, itemId, quantity) ==
  LET n == Len(P.inventory)
      r == removeFromSlots(SubSeq(P.inventory, n, n), Len(SubSeq(P.inventory, n, n)),
                           itemId, quantity)
  IN  [P |-> [P EXCEPT !.inventory = SubSeq(P.inventory, 1, n - 1) \o r.inventory],
       ok |-> r.ok]

\* the loop run from the first slot up
RECURSIVE removeFromSlotsUp(_, _, _, _)
removeFromSlotsUp(inv, i, itemId, remaining) ==
  IF i > Len(inv)
  THEN [inventory |-> inv, ok |-> remaining = 0]
  ELSE IF inv[i].itemId = itemId
  THEN LET canRemove == Min(remaining, inv[i].quantity)
           left == inv[i].quantity - canRemove
           inv2 == IF left = 0
                   THEN splice(inv, i)
                   ELSE [inv EXCEPT ![i].quantity = left]
       IN  IF remaining - canRemove = 0
           THEN [inventory |-> inv2, ok |-> TRUE]
           ELSE removeFromSlotsUp(inv2, IF left = 0 THEN i ELSE i + 1, itemId,
                                  remaining - canRemove)
  ELSE removeFromSlotsUp(inv, i + 1, itemId, remaining)

\* mutant: the units are taken from the first slots
removeItemFromFirstSlots(P, itemId, quantity) ==
  LET r == removeFromSlotsUp(P.inventory, 1, itemId, quantity)
  IN  [P |-> [P EXCEPT !.inventory = r.inventory], ok |-> r.ok]

removeItemFromInventory(P, itemId, quantity) ==
  LET r == removeFromSlots(P.inventory, Len(P.inventory), itemId, quantity)
  IN  [P |-> [P EXCEPT !.inventory = r.inventory], ok |-> r.ok]

RECURSIVE sumQuantity(_, _, _)
sumQuantity(inv, i, itemId) ==
  IF i > Len(inv)
  THEN 0
  ELSE (IF inv[i].itemId = itemId THEN inv[i].quantity ELSE 0)
       + sumQuantity(inv, i + 1, itemId)

getItemCount(P, itemId) == sumQuantity(P.inventory, 1, itemId)

hasItems(P, itemId, quantity) == getItemCount(P, itemId) >= quantity

levelUp(P) ==
  [P EXCEPT !.level = @ + 1, !.xp = 0,
            !.maxHealth = @ + 10, !.maxStamina = @ + 10,
            !.health = P.maxHealth + 10, !.stamina = P.maxStamina + 10]

addXP(P, amount) ==
  LET P1 == [P EXCEPT !.xp = @ + amount]
  IN  IF P1.xp >= P.level * 100 THEN levelUp(P1) ELSE P1

\* GamePlayerEntity.die: the respawn comes 5 s later
die(P) == [P EXCEPT !.respawnTimers = @ + 1]

\* the setTimeout callback of die
respawnTimeout(P) ==
  [P EXCEPT !.respawnTimers = @ - 1, !.health = P.maxHealth,
            !.stamina = P.maxStamina]

takeDamage(P, amount) ==
  LET P1 == [P EXCEPT !.health = Max(0, @ - amount)]
  IN IF P1.health = 0 THEN die(P1) ELSE P1

heal(P, amount) == [P EXCEPT !.health = Min(P.maxHealth, @ + amount)]

\* the setInterval callback of startHealthRegen
healthRegen(P) ==
  IF P.health < P.maxHealth
  THEN [P EXCEPT !.health = Min(P.maxHealth, @ + 1)]
  ELSE P

useItem(P, itemId) ==
  IF itemId \notin DOMAIN itemsConfig
  THEN [P |-> P, ok |-> FALSE]
  ELSE IF ~hasItems(P, itemId, 1)
  THEN [P |-> P, ok |-> FALSE]
  ELSE IF itemsConfig[itemId].type # "consumable"
  THEN [P |-> P, ok |-> FALSE]
  ELSE IF itemId = "healing_potion"
  THEN [P |-> removeItemFromInventory(heal(P, 30), itemId, 1).P, ok |-> TRUE]
  ELSE [P |-> P, ok |-> FALSE]

\* runes.includes(runeId)
includes(runes, runeId) == \E i \in 1..Len(runes) : runes[i] = runeId

\* mutant: a rune is equipped whatever the list holds
equipRuneUnchecked(P, runeId) ==
  [P |-> [P EXCEPT !.runes = Append(@, runeId)], ok |-> TRUE]

equipRune(P, runeId) ==
  IF Len(P.runes) >= MAX_RUNE_SLOTS
  THEN [P |-> P, ok |-> FALSE]
  ELSE IF includes(P.runes, runeId)
  THEN [P |-> P, ok |-> FALSE]
  ELSE [P |-> [P EXCEPT !.runes = Append(@, runeId)], ok |-> TRUE]

\* runes.indexOf(runeId) is the first index that holds it; splice(index, 1)
unequipRune(P, runeId) ==
  IF ~includes(P.runes, runeId)
  THEN [P |-> P, ok |-> FALSE]
  ELSE LET index == CHOOSE i \in 1..Len(P.runes) :
                      /\ P.runes[i] = runeId
                      /\ \A j \in 1..(i - 1) : P.runes[j] # runeId
       IN [P |-> [P EXCEPT !.runes = splice(@, index)], ok |-> TRUE]

\* loadPlayerData of a player with no saved data
initializeNewPlayer(P) ==
  addItemToInventory(addItemToInventory(P, "wood", 10).P, "stone", 5).P

\* the PlayerData that savePlayerData hands to setPersistedData
savePlayerData(P) ==
  [inventory |-> P.inventory, runes |-> P.runes, level |-> P.level,
   xp |-> P.xp, health |-> P.health, stamina |-> P.stamina]

\* saved is <<>> or the one PlayerData that was saved last
loadPlayerData(P, saved) ==
  IF saved # <<>>
  THEN [P EXCEPT !.health = saved[1].health, !.stamina = saved[1].stamina,
                 !.level = saved[1].level, !.xp = saved[1].xp,
                 !.inventory = saved[1].inventory, !.runes = saved[1].runes]
  ELSE initializeNewPlayer(P)

onSpawnHandler(P, saved) == [loadPlayerData(P, saved) EXCEPT !.spawned = TRUE]

(***************************************************************************)
(* BaseEnemyEntity: a wispling                                             *)
(***************************************************************************)
ATTACK_COOLDOWN_MS == 1000

enemyConfig == [id |-> "wispling", health |-> 20, damage |-> 5, xpReward |-> 10]

\* the entity as constructed and spawned
NewEnemy ==
  [health |-> enemyConfig.health, maxHealth |-> enemyConfig.health,
   isDead |-> FALSE, attackCooldown |-> 0, isSpawned |-> TRUE,
   despawnTimeouts |-> 0, tracked |-> FALSE, despawnedAgain |-> FALSE]

\* Entity.despawn(): the entity leaves the world and its 'despawn' listeners
\* run, which takes it out of NightManager.activeEnemies; despawnedAgain is
\* history: despawn() was called on an entity that had left already
despawn(E) ==
  IF E.isSpawned
  THEN [E EXCEPT !.isSpawned = FALSE, !.tracked = FALSE]
  ELSE [E EXCEPT !.despawnedAgain = TRUE]

\* returns the player after the attack and whether damage was applied
attackPlayer(E, P) ==
  IF E.isDead
  THEN [P |-> P, attacked |-> FALSE]
  ELSE [P |-> takeDamage(P, enemyConfig.damage), attacked |-> TRUE]

\* mutant: the cooldown is not looked at
onCollisionWithoutCooldown(E, P, time) ==
  IF E.isDead
  THEN [E |-> E, P |-> P, attacked |-> FALSE]
  ELSE LET a == attackPlayer(E, P)
       IN [E |-> [E EXCEPT !.attackCooldown = time], P |-> a.P,
           attacked |-> a.attacked]

\* the other entity is the player entity P; time is Date.now()
onCollisionWithPlayer(E, P, time) ==
  IF E.isDead
  THEN [E |-> E, P |-> P, attacked |-> FALSE]
  ELSE IF time - E.attackCooldown < ATTACK_COOLDOWN_MS
  THEN [E |-> E, P |-> P, attacked |-> FALSE]
  ELSE LET a == attackPlayer(E, P)
       IN [E |-> [E EXCEPT !.attackCooldown = time], P |-> a.P,
           attacked |-> a.attacked]

\* BaseEnemyEntity.die without a killer: no XP, no loot is given
dieEnemy(E) ==
  IF E.isDead
  THEN E
  ELSE [E EXCEPT !.isDead = TRUE, !.despawnTimeouts = @ + 1]

\* BaseEnemyEntity.takeDamage without an attacker
takeDamageEnemy(E, amount) ==
  IF E.isDead
  THEN E
  ELSE LET E1 == [E EXCEPT !.health = Max(0, @ - amount)]
       IN IF E1.health <= 0 THEN dieEnemy(E1) ELSE E1

(***************************************************************************)
(* InventoryManager                                                        *)
(***************************************************************************)
\* PL is the players, by id
transferItems(PL, fromPlayer, toPlayer, itemId, quantity) ==
  IF ~hasItems(PL[fromPlayer], itemId, quantity)
  THEN [players |-> PL, ok |-> FALSE]
  ELSE IF itemId \notin DOMAIN itemsConfig
  THEN [players |-> PL, ok |-> FALSE]
  ELSE LET added == addItemToInventory(PL[toPlayer], itemId, quantity)
           PL1 == [PL EXCEPT ![toPlayer] = added.P]
       IN  IF ~added.ok
           THEN [players |-> PL1, ok |-> FALSE]
           ELSE [players |->
                   [PL1 EXCEPT ![fromPlayer] =
                      removeItemFromInventory(PL1[fromPlayer], itemId, quantity).P],
                 ok |-> TRUE]

\* the Map of stackInventory: the item ids in the order of their first slot,
\* each with the sum of its slots
RECURSIVE consolidated(_, _, _)
consolidated(inv, i, seen) ==
  IF i > Len(inv)
  THEN <<>>
  ELSE IF inv[i].itemId \in seen
  THEN consolidated(inv, i + 1, seen)
  ELSE <<[itemId |-> inv[i].itemId,
          quantity |-> sumQuantity(inv, 1, inv[i].itemId)]>>
       \o consolidated(inv, i + 1, seen \cup {inv[i].itemId})

RECURSIVE reAdd(_, _, _)
reAdd(P, entries, i) ==
  IF i > Len(entries)
  THEN P
  ELSE reAdd(addItemToInventory(P, entries[i].itemId, entries[i].quantity).P,
             entries, i + 1)

stackInventory(P) ==
  reAdd([P EXCEPT !.inventory = <<>>], consolidated(P.inventory, 1, {}), 1)

RECURSIVE hasInputsFrom(_, _, _)
hasInputsFrom(P, inputs, i) ==
  IF i > Len(inputs)
  THEN TRUE
  ELSE IF ~hasItems(P, inputs[i].itemId, inputs[i].quantity)
  THEN FALSE
  ELSE hasInputsFrom(P, inputs, i + 1)

hasRecipeInputs(P, recipeId) ==
  IF recipeId \notin DOMAIN recipesConfig
  THEN FALSE
  ELSE hasInputsFrom(P, recipesConfig[recipeId].inputs, 1)

(***************************************************************************)
(* CraftingManager.  C is [players, activeCrafts, craftTimers]; a timer is *)
(* [id, playerId, recipeId], the id standing for the setTimeout handle.    *)
(***************************************************************************)
isCrafting(C, playerId) == \E j \in C.activeCrafts : j.playerId = playerId

RECURSIVE consumeInputs(_, _, _)
consumeInputs(P, inputs, i) ==
  IF i > Len(inputs)
  THEN P
  ELSE consumeInputs(
         removeItemFromInventory(P, inputs[i].itemId, inputs[i].quantity).P,
         inputs, i + 1)

\* mutant: the inputs are taken before they are validated
tryCraftConsumesFirst(C, playerId, recipeId, timeoutId) ==
  IF recipeId \notin DOMAIN recipesConfig
  THEN [C |-> C, ok |-> FALSE]
  ELSE IF isCrafting(C, playerId)
  THEN [C |-> C, ok |-> FALSE]
  ELSE LET recipe == recipesConfig[recipeId]
           C1 == [C EXCEPT !.players[playerId] = consumeInputs(@, recipe.inputs, 1)]
       IN  IF ~hasRecipeInputs(C.players[playerId], recipeId)
           THEN [C |-> C1, ok |-> FALSE]
           ELSE [C |-> [C1 EXCEPT
                          !.craftTimers = @ \cup {[id |-> timeoutId,
                                                   playerId |-> playerId,
                                                   recipeId |-> recipeId]},
                          !.activeCrafts =
                             {j \in @ : j.playerId # playerId}
                             \cup {[playerId |-> playerId, recipeId |-> recipeId,
                                    duration |-> recipe.craftTime,
                                    timeoutId |-> timeoutId]}],
                 ok |-> TRUE]

\* mutant: a player who is crafting may start another craft
tryCraftWhileCrafting(C, playerId, recipeId, timeoutId) ==
  IF recipeId \notin DOMAIN recipesConfig
  THEN [C |-> C, ok |-> FALSE]
  ELSE IF ~hasRecipeInputs(C.players[playerId], recipeId)
  THEN [C |-> C, ok |-> FALSE]
  ELSE LET recipe == recipesConfig[recipeId]
       IN  [C |-> [C EXCEPT
                     !.players[playerId] = consumeInputs(@, recipe.inputs, 1),
                     !.craftTimers = @ \cup {[id |-> timeoutId,
                                              playerId |-> playerId,
                                              recipeId |-> recipeId]},
                     !.activeCrafts =
                        {j \in @ : j.playerId # playerId}
                        \cup {[playerId |-> playerId, recipeId |-> recipeId,
                               duration |-> recipe.craftTime,
                               timeoutId |-> timeoutId]}],
            ok |-> TRUE]

\* timeoutId is the handle setTimeout gives
tryCraft(C, playerId, recipeId, timeoutId) ==
  IF recipeId \notin DOMAIN recipesConfig
  THEN [C |-> C, ok |-> FALSE]
  ELSE IF isCrafting(C, playerId)
  THEN [C |-> C, ok |-> FALSE]
  ELSE IF ~hasRecipeInputs(C.players[playerId], recipeId)
  THEN [C |-> C, ok |-> FALSE]
  ELSE LET recipe == recipesConfig[recipeId]
       IN  [C |-> [C EXCEPT
                     !.players[playerId] = consumeInputs(@, recipe.inputs, 1),
                     !.craftTimers = @ \cup {[id |-> timeoutId,
                                              playerId |-> playerId,
                                              recipeId |-> recipeId]},
                     !.activeCrafts =
                        {j \in @ : j.playerId # playerId}
                        \cup {[playerId |-> playerId, recipeId |-> recipeId,
                               duration |-> recipe.craftTime,
                               timeoutId |-> timeoutId]}],
            ok |-> TRUE]

\* mutant: the output is added twice
completeCraftTwice(C, playerId, recipeId) ==
  LET recipe == recipesConfig[recipeId]
      C1 == [C EXCEPT !.activeCrafts = {j \in @ : j.playerId # playerId}]
      once == addItemToInventory(C1.players[playerId], recipe.output.itemId,
                                 recipe.output.quantity)
      added == addItemToInventory(once.P, recipe.output.itemId,
                                  recipe.output.quantity)
  IN  IF ~added.ok
      THEN [C1 EXCEPT !.players[playerId] = added.P]
      ELSE [C1 EXCEPT !.players[playerId] = addXP(added.P, 10)]

\* mutant: the XP is granted whether or not the output was added
completeCraftAlwaysXP(C, playerId, recipeId) ==
  LET recipe == recipesConfig[recipeId]
      C1 == [C EXCEPT !.activeCrafts = {j \in @ : j.playerId # playerId}]
      added == addItemToInventory(C1.players[playerId], recipe.output.itemId,
                                  recipe.output.quantity)
  IN  [C1 EXCEPT !.players[playerId] = addXP(added.P, 10)]

completeCraft(C, playerId, recipeId) ==
  IF recipeId \notin DOMAIN recipesConfig
  THEN C
  ELSE LET recipe == recipesConfig[recipeId]
           C1 == [C EXCEPT !.activeCrafts = {j \in @ : j.playerId # playerId}]
           added == addItemToInventory(C1.players[playerId],
                                       recipe.output.itemId,
                                       recipe.output.quantity)
       IN  IF ~added.ok
           THEN [C1 EXCEPT !.players[playerId] = added.P]
           ELSE [C1 EXCEPT !.players[playerId] = addXP(added.P, 10)]

\* mutant: the job is forgotten and its timer is left pending
cancelCraftKeepsTimer(C, playerId) ==
  IF ~isCrafting(C, playerId)
  THEN [C |-> C, ok |-> FALSE]
  ELSE [C |-> [C EXCEPT !.activeCrafts = {j \in @ : j.playerId # playerId}],
        ok |-> TRUE]

cancelCraft(C, playerId) ==
  IF ~isCrafting(C, playerId)
  THEN [C |-> C, ok |-> FALSE]
  ELSE LET craft == CHOOSE j \in C.activeCrafts : j.playerId = playerId
       IN  [C |-> [C EXCEPT
                     !.craftTimers = {t \in @ : t.id # craft.timeoutId},
                     !.activeCrafts = {j \in @ : j.playerId # playerId}],
            ok |-> TRUE]

(***************************************************************************)
(* Resource nodes.  W is [players, resourceNode, baseResource,             *)
(* resourcesGathered]: one tree of each of the two node classes, which     *)
(* stay in the world, and the players who gather from them.                *)
(***************************************************************************)
\* the ResourceNodeConfig ResourceManager.spawnTrees gives a tree
treeConfig ==
  [itemId |-> "wood", minYield |-> 3, maxYield |-> 6,
   gatherTime |-> 2000, respawnTime |-> 120000]

\* the options of TreeEntity
treeOptions ==
  [resourceId |-> "wood", minYield |-> 3, maxYield |-> 7,
   respawnTime |-> 90000, harvestDuration |-> 3000]

\* ResourceNodeEntity as constructed; gatherPromises are the pending
\* gatherPromise of startGathering, respawnTimeouts the pending setTimeout
\* callbacks of deplete
NewResourceNode ==
  [isBeingGathered |-> FALSE, isDepleted |-> FALSE,
   gatherPromises |-> {}, respawnTimeouts |-> 0]

\* BaseResourceEntity as constructed; "" is undefined, harvestTimers are the
\* pending setTimeout callbacks of startHarvesting, harvestTimeout the handle
\* of the last one (0: undefined), respawnTimeouts those of deplete
NewBaseResource ==
  [isDepleted |-> FALSE, currentHarvester |-> "", harvestTimers |-> {},
   harvestTimeout |-> 0, respawnTimeouts |-> 0]

\* ResourceNodeEntity.startGathering up to its await
startGathering(W, player, id) ==
  IF ~W.players[player].spawned
  THEN W
  ELSE [W EXCEPT !.resourceNode.isBeingGathered = TRUE,
                 !.resourceNode.gatherPromises =
                    @ \cup {[id |-> id, player |-> player]}]

\* ResourceNodeEntity.interact
interact(W, player, id) ==
  IF W.resourceNode.isDepleted
  THEN W
  ELSE IF W.resourceNode.isBeingGathered
  THEN W
  ELSE startGathering(W, player, id)

\* ResourceNodeEntity.deplete
depleteNode(W) ==
  IF treeConfig.respawnTime # 0
  THEN [W EXCEPT !.resourceNode.isDepleted = TRUE,
                 !.resourceNode.respawnTimeouts = @ + 1]
  ELSE [W EXCEPT !.resourceNode.isDepleted = TRUE]

\* ResourceNodeEntity.respawn
respawnNode(W) ==
  [W EXCEPT !.resourceNode.isDepleted = FALSE,
            !.resourceNode.isBeingGathered = FALSE]

\* ResourceNodeEntity.startGathering after its await, with the yield drawn
gatherDone(W, player, yield_amount) ==
  LET added == addItemToInventory(W.players[player], treeConfig.itemId,
                                  yield_amount)
      W1 == [W EXCEPT !.players[player] = added.P]
      W2 == IF added.ok
            THEN depleteNode([W1 EXCEPT !.resourcesGathered = @ + 1])
            ELSE W1
  IN  [W2 EXCEPT !.resourceNode.isBeingGathered = FALSE]

\* BaseResourceEntity.startHarvesting
startHarvesting(W, player, id) ==
  [W EXCEPT !.baseResource.currentHarvester = player,
            !.baseResource.harvestTimeout = id,
            !.baseResource.harvestTimers =
               @ \cup {[id |-> id, player |-> player]}]

\* BaseResourceEntity.onInteract
onInteract(W, player, id) ==
  IF W.baseResource.isDepleted
  THEN W
  ELSE IF W.baseResource.currentHarvester # ""
          /\ W.baseResource.currentHarvester # player
  THEN W
  ELSE startHarvesting(W, player, id)

\* mutant: the respawn is not scheduled
depleteForGood(W) == [W EXCEPT !.baseResource.isDepleted = TRUE]

\* BaseResourceEntity.deplete
deplete(W) ==
  [W EXCEPT !.baseResource.isDepleted = TRUE,
            !.baseResource.respawnTimeouts = @ + 1]

\* BaseResourceEntity.respawn
respawn(W) == [W EXCEPT !.baseResource.isDepleted = FALSE]

\* BaseResourceEntity.completeHarvest, with the yield drawn
completeHarvest(W, player, yield_) ==
  LET success == addItemToInventory(W.players[player], treeOptions.resourceId,
                                    yield_)
      W1 == [W EXCEPT !.players[player] = success.P]
      W2 == IF success.ok THEN deplete(W1) ELSE W1
  IN  [W2 EXCEPT !.baseResource.currentHarvester = ""]

\* BaseResourceEntity.cancelHarvest
cancelHarvest(W) ==
  [W EXCEPT !.baseResource.harvestTimers =
               {t \in @ : t.id # W.baseResource.harvestTimeout},
            !.baseResource.harvestTimeout = 0,
            !.baseResource.currentHarvester = ""]

(***************************************************************************)
(* Initial state: the managers as constructed on a server that has no      *)
(* saved game state                                                        *)
(***************************************************************************)
Init ==
  /\ currentPhase = MORNING
  /\ elapsedMs = 0
  /\ isRunning = FALSE
  /\ tickInterval = FALSE
  /\ tickTimers = 0
  /\ gameState = DefaultGameState
  /\ savedGameState = <<>>
  /\ stopCallback = FALSE
  /\ audio = switchMusic([audio |-> NewAudio], "day").audio
  /\ musicCallbacks = <<>>
  /\ boss = "none"
  /\ isNightActive = FALSE
  /\ spawnInterval = {}
  /\ spawnTimers = 0
  /\ enemiesSpawned = 0
  /\ activeEnemies = 0
  /\ maxEnemiesThisNight = 10
  /\ spawnLog = [night |-> 0, normal |-> 0, boss |-> 0]
  /\ lastSpawned = "none"
  /\ phaseEntry = [by |-> "init", from |-> MORNING]
  /\ players = [p \in PlayerIds |-> NewPlayer]
  /\ activeCrafts = {}
  /\ craftTimers = {}
  /\ lastCall = [op |-> "none", player |-> "", arg |-> "", quantity |-> 0,
                 ok |-> TRUE, moved |-> 0]
  /\ opCount = 0
  /\ resourceNode = NewResourceNode
  /\ baseResource = NewBaseResource
  /\ resourcesGathered = 0
  /\ yields = [node |-> 0, base |-> 0]
  /\ persistedData = [p \in PlayerIds |-> <<>>]
  /\ enemy = NewEnemy
  /\ now \in StartTimes
  /\ damageLog = [count |-> 0, at |-> 0]

(***************************************************************************)
(* Events.  A promise continuation runs before the next timer or chat      *)
(* event, so nothing else happens while stopCallback is pending.           *)
(***************************************************************************)
\* no promise callback is pending
Idle == ~stopCallback /\ musicCallbacks = <<>>

\* the model plays through nights 1..MaxNight and the last night only
NightInBounds(delta) ==
  elapsedMs + delta >= CYCLE_DURATION_MS =>
    (gameState.currentNight < MaxNight \/ gameState.currentNight >= 99)

\* the 1 s interval timer fires, delta ms after the previous tick
TickBy(delta) ==
  /\ tickTimers > 0
  /\ Idle
  /\ NightInBounds(delta)
  /\ Becomes(Entered("tick", Cur, tick(Cur, delta)))

Tick == \E delta \in OnTimeDeltas : TickBy(delta)

startCommand(S) ==
  IF S.gameState.isStarted /\ S.isRunning
  THEN S
  ELSE IF S.gameState.isStarted /\ ~S.isRunning
  THEN start(S)
  ELSE start(startGame(S))

StartCmd ==
  /\ Idle
  /\ Becomes(Entered("start", Cur, startCommand(Cur)))

\* switchMusic('day') comes after the await of saveGameState
resetCommand(S) ==
  thenSwitchMusic(saveGameState(resetGame(stop(S))), "day")

ResetCmd ==
  /\ Idle
  /\ Becomes(resetCommand(Cur))

skipphaseCommand(S) ==
  IF ~S.gameState.isStarted
  THEN S
  ELSE LET S1 == skipToNextPhase(S)
       IN IF S.currentPhase = S1.currentPhase
          THEN S1
          ELSE updateMusicForPhase(S1, S1.currentPhase)

SkipPhaseCmd ==
  /\ Idle
  /\ Becomes(Entered("skip", Cur, skipphaseCommand(Cur)))

\* mutant: the range check of the argument is missing
skipnightCommandUnchecked(S, nightNumber) ==
  [S EXCEPT !.gameState.currentNight = nightNumber]

skipnightCommand(S, nightNumber) ==
  IF nightNumber < 1 \/ nightNumber > 99
  THEN S
  ELSE saveGameState([S EXCEPT !.gameState.currentNight = nightNumber])

SkipNightCmd ==
  \E nightNumber \in SkipNightArgs :
    /\ Idle
    /\ Becomes(skipnightCommand(Cur, nightNumber))

\* the spawn timer fires
SpawnTimerFires ==
  \E t \in spawnInterval, r \in RandomDraws :
    /\ Idle
    /\ Becomes(spawnTick([Cur EXCEPT !.random = r], t))

\* a tracked enemy or the boss is despawned (killed by a player) and its
\* callback runs
EnemyDespawn ==
  /\ Idle
  /\ \/ /\ activeEnemies > (IF boss = "tracked" THEN 1 ELSE 0)
        /\ Becomes(despawnCallback(Cur))
     \/ /\ boss # "none"
        /\ Becomes(bossDespawnCallback(Cur))

\* a pending import('./AudioManager').then(...) callback runs
MusicCallback ==
  /\ musicCallbacks # <<>>
  /\ Becomes(switchMusic([Cur EXCEPT !.musicCallbacks = Tail(@)],
                         Head(musicCallbacks)))

\* import('./TimeManager').then(...) of victoryGame
VictoryStopCallback ==
  /\ stopCallback
  /\ Becomes([stop(Cur) EXCEPT !.stopCallback = FALSE])

Next ==
  \/ Tick
  \/ StartCmd
  \/ ResetCmd
  \/ SkipPhaseCmd
  \/ SkipNightCmd
  \/ SpawnTimerFires
  \/ EnemyDespawn
  \/ VictoryStopCallback
  \/ MusicCallback

Spec == Init /\ [][Next]_vars

(***************************************************************************)
(* The same program on a host that may hold the process up: a tick may     *)
(* come a minute or more after the previous one                            *)
(***************************************************************************)
LateTick == \E delta \in LateDeltas : TickBy(delta)

NextLate ==
  \/ Next
  \/ LateTick

SpecLate == Init /\ [][NextLate]_vars

(***************************************************************************)
(* The server is restarted: the managers are constructed again and the     *)
(* GameManager loads the game state the host has kept                      *)
(***************************************************************************)
\* the managers of a new process, as constructed; saved is what the host
\* holds under 'gameState'
NewManagers(saved) ==
  [currentPhase |-> MORNING, elapsedMs |-> 0, isRunning |-> FALSE,
   tickInterval |-> FALSE, tickTimers |-> 0,
   gameState |-> DefaultGameState, savedGameState |-> saved,
   stopCallback |-> FALSE,
   audio |-> switchMusic([audio |-> NewAudio], "day").audio,
   musicCallbacks |-> <<>>, boss |-> "none", isNightActive |-> FALSE,
   spawnInterval |-> {}, spawnTimers |-> 0, enemiesSpawned |-> 0,
   activeEnemies |-> 0, maxEnemiesThisNight |-> 10,
   spawnLog |-> [night |-> 0, normal |-> 0, boss |-> 0],
   phaseEntry |-> [by |-> "init", from |-> MORNING],
   lastSpawned |-> "none", random |-> 0, observed |-> FALSE]

\* GameManager.initialize: the persisted game state replaces the default
initialize(S) ==
  IF S.savedGameState # <<>>
  THEN [S EXCEPT !.gameState = S.savedGameState[1]]
  ELSE S

ServerRestart ==
  /\ Idle
  /\ Becomes(initialize(NewManagers(savedGameState)))

NextRestart ==
  \/ Tick
  \/ StartCmd
  \/ ResetCmd
  \/ SkipPhaseCmd
  \/ MusicCallback
  \/ ServerRestart

RestartSpec == Init /\ [][NextRestart]_vars

(***************************************************************************)
(* TimeManager on its own: start and stop called at any time, between the  *)
(* ticks of its timer                                                      *)
(***************************************************************************)
\* a call of a TimeManager method took the managers to S; its history
TimeCalled(op, S) ==
  /\ BecomesGame(S)
  /\ lastCall' = [op |-> op, player |-> "", arg |-> "", quantity |-> 0,
                  ok |-> ~isRunning, moved |-> 0]
  /\ UNCHANGED <<players, activeCrafts, craftTimers, opCount>>
  /\ UNCHANGED <<nodeVars, combatVars>>

TimeStartCall ==
  /\ Idle
  /\ TimeCalled("start", Entered("start", Cur, start(Cur)))

TimeStopCall ==
  /\ Idle
  /\ TimeCalled("stop", stop(Cur))

NextTime ==
  \/ Tick
  \/ TimeStartCall
  \/ TimeStopCall

TimeSpec == Init /\ [][NextTime]_vars

(***************************************************************************)
(* NightManager on its own: its public operations called in any order      *)
(***************************************************************************)
\* while a night is active startNight returns at once, whatever its argument:
\* those calls are made with one normal and one boss night
ActiveNightArgs == {1, 10}

StartNightFrom(args) ==
  \E nightNumber \in args :
    /\ Idle
    /\ isNightActive => nightNumber \in ActiveNightArgs
    /\ Becomes(startNight(Cur, nightNumber))

StartNightCall == StartNightFrom(StartNightArgs)

EndNightCall ==
  /\ Idle
  /\ Becomes(endNight(Cur))

NextNight ==
  \/ StartNightCall
  \/ EndNightCall
  \/ SpawnTimerFires
  \/ EnemyDespawn
  \/ MusicCallback

NightSpec == Init /\ [][NextNight]_vars

(***************************************************************************)
(* NightManager with its spawns observed: the type of every enemy the      *)
(* spawn timer spawns is recorded                                          *)
(***************************************************************************)
\* the nights around the minNight of each enemy type, two boss nights, and
\* a night number that no enemy type is old enough for
SpawnNightArgs == {0, 1, 2, 3, 6, 7, 10, 99}

StartObservedNight == StartNightFrom(SpawnNightArgs)

\* the spawn timer fires
ObservedSpawnTick ==
  \E t \in spawnInterval, r \in RandomDraws :
    /\ Idle
    /\ Becomes(spawnTick([Cur EXCEPT !.random = r, !.observed = TRUE], t))

NextSpawn ==
  \/ StartObservedNight
  \/ EndNightCall
  \/ ObservedSpawnTick
  \/ EnemyDespawn
  \/ MusicCallback

SpawnSpec == Init /\ [][NextSpawn]_vars

(***************************************************************************)
(* The players' inventories and the CraftingManager on their own: the      *)
(* operations called in any order, MaxOps calls in all                     *)
(***************************************************************************)
CurCraft ==
  [players |-> players, activeCrafts |-> activeCrafts,
   craftTimers |-> craftTimers]

\* the call op(arg, quantity) of player p returned ok and changed p's count
\* of the item by moved
Called(op, p, arg, quantity, ok, PL) ==
  /\ lastCall' = [op |-> op, player |-> p, arg |-> arg, quantity |-> quantity,
                  ok |-> ok,
                  moved |-> getItemCount(PL[p], arg) - getItemCount(players[p], arg)]
  /\ opCount' = opCount + 1

CanCall(p) == players[p].spawned /\ opCount < MaxOps

PlayerSpawn ==
  \E p \in PlayerIds :
    /\ ~players[p].spawned
    /\ players' = [players EXCEPT ![p] = onSpawnHandler(@, persistedData[p])]
    /\ UNCHANGED <<activeCrafts, craftTimers, lastCall, opCount>>
    /\ UNCHANGED gameVars
    /\ UNCHANGED <<nodeVars, combatVars>>

AddItemFrom(args, limit) ==
  \E p \in PlayerIds, a \in args :
    /\ players[p].spawned
    /\ opCount < limit
    /\ LET r == addItemToInventory(players[p], a[1], a[2])
           PL == [players EXCEPT ![p] = r.P]
       IN  /\ players' = PL
           /\ Called("add", p, a[1], a[2], r.ok, PL)
    /\ UNCHANGED <<activeCrafts, craftTimers>>
    /\ UNCHANGED gameVars
    /\ UNCHANGED <<nodeVars, combatVars>>

AddItemCall == AddItemFrom(AddArgs, MaxOps)

RemoveItemCall ==
  \E p \in PlayerIds, a \in RemoveArgs :
    /\ CanCall(p)
    /\ LET r == removeItemFromInventory(players[p], a[1], a[2])
           PL == [players EXCEPT ![p] = r.P]
       IN  /\ players' = PL
           /\ Called("remove", p, a[1], a[2], r.ok, PL)
    /\ UNCHANGED <<activeCrafts, craftTimers>>
    /\ UNCHANGED gameVars
    /\ UNCHANGED <<nodeVars, combatVars>>

UseItemCall ==
  \E p \in PlayerIds, itemId \in UseArgs :
    /\ CanCall(p)
    /\ LET r == useItem(players[p], itemId)
           PL == [players EXCEPT ![p] = r.P]
       IN  /\ players' = PL
           /\ Called("use", p, itemId, 1, r.ok, PL)
    /\ UNCHANGED <<activeCrafts, craftTimers>>
    /\ UNCHANGED gameVars
    /\ UNCHANGED <<nodeVars, combatVars>>

TransferItemsCall ==
  \E a \in TransferArgs :
    /\ CanCall(a[1])
    /\ players[a[2]].spawned
    /\ LET r == transferItems(players, a[1], a[2], a[3], a[4])
       IN  /\ players' = r.players
           /\ Called("transfer", a[1], a[3], a[4], r.ok, r.players)
    /\ UNCHANGED <<activeCrafts, craftTimers>>
    /\ UNCHANGED gameVars
    /\ UNCHANGED <<nodeVars, combatVars>>

StackInventoryCall ==
  \E p \in PlayerIds :
    /\ CanCall(p)
    /\ LET PL == [players EXCEPT ![p] = stackInventory(@)]
       IN  /\ players' = PL
           /\ Called("stack", p, "", 0, TRUE, PL)
    /\ UNCHANGED <<activeCrafts, craftTimers>>
    /\ UNCHANGED gameVars
    /\ UNCHANGED <<nodeVars, combatVars>>

\* /craft <recipe_id>, or the 'craft' message of the UI
TryCraftCall ==
  \E p \in PlayerIds, recipeId \in CraftArgs :
    /\ CanCall(p)
    /\ LET r == tryCraft(CurCraft, p, recipeId, opCount + 1)
       IN  /\ players' = r.C.players
           /\ activeCrafts' = r.C.activeCrafts
           /\ craftTimers' = r.C.craftTimers
           /\ Called("craft", p, recipeId, 0, r.ok, r.C.players)
    /\ UNCHANGED gameVars
    /\ UNCHANGED <<nodeVars, combatVars>>

CancelCraftCall ==
  \E p \in PlayerIds :
    /\ CanCall(p)
    /\ LET r == cancelCraft(CurCraft, p)
       IN  /\ players' = r.C.players
           /\ activeCrafts' = r.C.activeCrafts
           /\ craftTimers' = r.C.craftTimers
           /\ Called("cancel", p, "", 0, r.ok, r.C.players)
    /\ UNCHANGED gameVars
    /\ UNCHANGED <<nodeVars, combatVars>>

\* a setTimeout callback of tryCraft runs
CraftTimerFires ==
  \E t \in craftTimers :
    /\ LET C == completeCraft([CurCraft EXCEPT !.craftTimers = @ \ {t}],
                              t.playerId, t.recipeId)
       IN  /\ players' = C.players
           /\ activeCrafts' = C.activeCrafts
           /\ craftTimers' = C.craftTimers
           /\ lastCall' =
                [op |-> "complete", player |-> t.playerId,
                 arg |-> t.recipeId, quantity |-> 0, ok |-> TRUE,
                 moved |->
                   LET out == recipesConfig[t.recipeId].output.itemId
                   IN  getItemCount(C.players[t.playerId], out)
                       - getItemCount(players[t.playerId], out)]
    /\ UNCHANGED opCount
    /\ UNCHANGED gameVars
    /\ UNCHANGED <<nodeVars, combatVars>>

NextInv ==
  \/ PlayerSpawn
  \/ AddItemCall
  \/ RemoveItemCall
  \/ UseItemCall
  \/ TransferItemsCall
  \/ StackInventoryCall
  \/ TryCraftCall
  \/ CancelCraftCall
  \/ CraftTimerFires

InvSpec == Init /\ [][NextInv]_vars

(***************************************************************************)
(* The rune list of a player: equipRune and unequipRune called in any      *)
(* order, MaxRuneOps calls in all                                          *)
(***************************************************************************)
RuneCalled(op, p, runeId, r) ==
  /\ players' = [players EXCEPT ![p] = r.P]
  /\ lastCall' = [op |-> op, player |-> p, arg |-> runeId, quantity |-> 0,
                  ok |-> r.ok, moved |-> Len(r.P.runes) - Len(players[p].runes)]
  /\ opCount' = opCount + 1
  /\ UNCHANGED <<activeCrafts, craftTimers>>
  /\ UNCHANGED gameVars
  /\ UNCHANGED <<nodeVars, combatVars>>

EquipRuneCall ==
  \E p \in PlayerIds, runeId \in RuneArgs :
    /\ players[p].spawned
    /\ opCount < MaxRuneOps
    /\ RuneCalled("equipRune", p, runeId, equipRune(players[p], runeId))

UnequipRuneCall ==
  \E p \in PlayerIds, runeId \in RuneArgs :
    /\ players[p].spawned
    /\ opCount < MaxRuneOps
    /\ RuneCalled("unequipRune", p, runeId, unequipRune(players[p], runeId))

NextRune ==
  \/ PlayerSpawn
  \/ EquipRuneCall
  \/ UnequipRuneCall

RuneSpec == Init /\ [][NextRune]_vars

(***************************************************************************)
(* The stats of a player: XP, damage, healing, regeneration, death and     *)
(* respawn, leaving and rejoining; MaxStatOps events in all                *)
(***************************************************************************)
XpArgs == {40, 100}

DamageArgs == {5, 100}

HealArgs == {20}

StatCalled(op, p, amount, P2) ==
  /\ players' = [players EXCEPT ![p] = P2]
  /\ lastCall' = [op |-> op, player |-> p, arg |-> "", quantity |-> amount,
                  ok |-> P2.level # players[p].level,
                  moved |-> P2.health - players[p].health]
  /\ opCount' = opCount + 1
  /\ UNCHANGED <<activeCrafts, craftTimers>>
  /\ UNCHANGED gameVars
  /\ UNCHANGED <<nodeVars, combatVars>>

AddXPCall ==
  \E p \in PlayerIds, amount \in XpArgs :
    /\ players[p].spawned
    /\ opCount < MaxStatOps
    /\ StatCalled("addXP", p, amount, addXP(players[p], amount))

TakeDamageCall ==
  \E p \in PlayerIds, amount \in DamageArgs :
    /\ players[p].spawned
    /\ opCount < MaxStatOps
    /\ StatCalled("takeDamage", p, amount, takeDamage(players[p], amount))

HealCall ==
  \E p \in PlayerIds, amount \in HealArgs :
    /\ players[p].spawned
    /\ opCount < MaxStatOps
    /\ StatCalled("heal", p, amount, heal(players[p], amount))

\* the 5 s interval timer of startHealthRegen fires
HealthRegenTick ==
  \E p \in PlayerIds :
    /\ players[p].spawned
    /\ opCount < MaxStatOps
    /\ players' = [players EXCEPT ![p] = healthRegen(@)]
    /\ opCount' = opCount + 1
    /\ UNCHANGED <<activeCrafts, craftTimers, lastCall>>
    /\ UNCHANGED gameVars
    /\ UNCHANGED <<nodeVars, combatVars>>

\* the 5 s timer of die fires
RespawnTimerFires ==
  \E p \in PlayerIds :
    /\ players[p].spawned
    /\ players[p].respawnTimers > 0
    /\ opCount < MaxStatOps
    /\ players' = [players EXCEPT ![p] = respawnTimeout(@)]
    /\ opCount' = opCount + 1
    /\ UNCHANGED <<activeCrafts, craftTimers, lastCall>>
    /\ UNCHANGED gameVars
    /\ UNCHANGED <<nodeVars, combatVars>>

\* the player leaves the world: onDespawnHandler saves the data, the
\* entity is gone and a new one is constructed when the player joins again
PlayerLeave ==
  \E p \in PlayerIds :
    /\ players[p].spawned
    /\ persistedData' = [persistedData EXCEPT ![p] = <<savePlayerData(players[p])>>]
    /\ opCount < MaxStatOps
    /\ players' = [players EXCEPT ![p] = NewPlayer]
    /\ opCount' = opCount + 1
    /\ UNCHANGED <<enemy, now, damageLog>>
    /\ UNCHANGED <<activeCrafts, craftTimers, lastCall>>
    /\ UNCHANGED gameVars
    /\ UNCHANGED nodeVars

NextStats ==
  \/ PlayerSpawn
  \/ PlayerLeave
  \/ AddXPCall
  \/ TakeDamageCall
  \/ HealCall
  \/ HealthRegenTick
  \/ RespawnTimerFires

StatsSpec == Init /\ [][NextStats]_vars

(***************************************************************************)
(* An enemy among the players: collisions, hits and the clock              *)
(***************************************************************************)
\* time passes
ClockTick ==
  \E delta \in ClockDeltas :
    /\ now + delta <= MaxClock
    /\ now' = now + delta
    /\ UNCHANGED <<persistedData, enemy, damageLog>>
    /\ UNCHANGED playVars
    /\ UNCHANGED gameVars
    /\ UNCHANGED nodeVars

\* EntityEvent.COLLISION_START of the enemy with the entity of player p
CollisionStart ==
  \E p \in PlayerIds :
    /\ players[p].spawned
    /\ enemy.isSpawned
    /\ LET r == onCollisionWithPlayer(enemy, players[p], now)
       IN /\ enemy' = r.E
          /\ players' = [players EXCEPT ![p] = r.P]
          /\ damageLog' = IF r.attacked
                          THEN [count |-> damageLog.count + 1, at |-> now]
                          ELSE damageLog
          /\ lastCall' = [op |-> "collision", player |-> p, arg |-> "",
                          quantity |-> enemyConfig.damage, ok |-> r.attacked,
                          moved |-> r.P.health - players[p].health]
    /\ UNCHANGED <<persistedData, now, activeCrafts, craftTimers, opCount>>
    /\ UNCHANGED gameVars
    /\ UNCHANGED nodeVars

\* the enemy is hit: 10 + 2 * level of a player of level 1
EnemyHit ==
  /\ enemy.isSpawned
  /\ enemy' = takeDamageEnemy(enemy, 10 + 1 * 2)
  /\ enemy' # enemy
  /\ UNCHANGED <<persistedData, now, damageLog>>
  /\ UNCHANGED playVars
  /\ UNCHANGED gameVars
  /\ UNCHANGED nodeVars

\* the setTimeout callback of BaseEnemyEntity.die
DeadEnemyDespawns ==
  /\ enemy.despawnTimeouts > 0
  /\ enemy' = despawn([enemy EXCEPT !.despawnTimeouts = @ - 1])
  /\ IF enemy.isSpawned /\ enemy.tracked
     THEN BecomesGame(despawnCallback(Cur))
     ELSE UNCHANGED gameVars
  /\ UNCHANGED <<persistedData, now, damageLog>>
  /\ UNCHANGED playVars
  /\ UNCHANGED nodeVars

NextCombat ==
  \/ PlayerSpawn
  \/ ClockTick
  \/ CollisionStart
  \/ EnemyHit
  \/ DeadEnemyDespawns

CombatSpec == Init /\ [][NextCombat]_vars

(***************************************************************************)
(* An enemy of the night: the model follows one enemy that the spawn timer *)
(* spawned, through its death and the end of the night                     *)
(***************************************************************************)
\* startNight while no night is active: activeEnemies.clear() forgets the
\* enemy
StartWatchedNight ==
  \E nightNumber \in ActiveNightArgs :
    /\ Idle
    /\ ~isNightActive
    /\ BecomesGame(startNight(Cur, nightNumber))
    /\ enemy' = [enemy EXCEPT !.tracked = FALSE]
    /\ UNCHANGED <<persistedData, now, damageLog>>
    /\ UNCHANGED playVars
    /\ UNCHANGED nodeVars

\* the spawn timer fires; the enemy it spawns is followed when the one
\* followed before is out of the set and has no despawn pending
WatchedSpawnTick ==
  \E t \in spawnInterval, r \in RandomDraws :
    /\ Idle
    /\ LET S == spawnTick([Cur EXCEPT !.random = r], t)
       IN  /\ BecomesGame(S)
           /\ enemy' = IF /\ S.activeEnemies > activeEnemies
                          /\ ~enemy.tracked
                          /\ enemy.despawnTimeouts = 0
                       THEN [NewEnemy EXCEPT !.tracked = TRUE]
                       ELSE enemy
    /\ UNCHANGED <<persistedData, now, damageLog>>
    /\ UNCHANGED playVars
    /\ UNCHANGED nodeVars

\* endNight: for (const enemy of this.activeEnemies) enemy.despawn()
EndWatchedNight ==
  /\ Idle
  /\ BecomesGame(endNight(Cur))
  /\ enemy' = IF isNightActive /\ enemy.tracked THEN despawn(enemy) ELSE enemy
  /\ UNCHANGED <<persistedData, now, damageLog>>
  /\ UNCHANGED playVars
  /\ UNCHANGED nodeVars

NextDespawn ==
  \/ StartWatchedNight
  \/ WatchedSpawnTick
  \/ EndWatchedNight
  \/ EnemyHit
  \/ DeadEnemyDespawns
  \/ MusicCallback

DespawnSpec == Init /\ [][NextDespawn]_vars

(***************************************************************************)
(* The resource nodes and the players who gather from them                 *)
(***************************************************************************)
CurWorld ==
  [players |-> players, resourceNode |-> resourceNode,
   baseResource |-> baseResource, resourcesGathered |-> resourcesGathered]

BecomesWorld(W) ==
  /\ players' = W.players
  /\ resourceNode' = W.resourceNode
  /\ baseResource' = W.baseResource
  /\ resourcesGathered' = W.resourcesGathered
  /\ UNCHANGED <<activeCrafts, craftTimers>>
  /\ UNCHANGED gameVars
  /\ UNCHANGED combatVars

\* a timer or promise callback ran for player p; it moved what it changed
\* p's wood by
Ran(op, p, quantity, ok, W) ==
  /\ lastCall' = [op |-> op, player |-> p, arg |-> "wood",
                  quantity |-> quantity, ok |-> ok,
                  moved |-> getItemCount(W.players[p], "wood")
                            - getItemCount(players[p], "wood")]
  /\ UNCHANGED opCount

CanInteract(p) == players[p].spawned /\ opCount < MaxNodeOps

\* a player whose inventory is nearly or wholly full of wood
FillInventoryCall == AddItemFrom(FillArgs, MaxNodeOps)

\* right click on the ResourceNodeEntity tree
InteractCall ==
  \E p \in PlayerIds :
    /\ CanInteract(p)
    /\ LET W == interact(CurWorld, p, opCount + 1)
       IN  /\ BecomesWorld(W)
           /\ Called("interact", p, "wood", 0,
                     W.resourceNode # resourceNode, W.players)
    /\ UNCHANGED yields

\* the gatherPromise of a gather resolves and startGathering goes on; the
\* yield drawn is the least or the greatest
GatherPromiseResolves ==
  \E t \in resourceNode.gatherPromises,
     yield_amount \in {treeConfig.minYield, treeConfig.maxYield} :
    LET W0 == [CurWorld EXCEPT !.resourceNode.gatherPromises = @ \ {t}]
        W == gatherDone(W0, t.player, yield_amount)
    IN  /\ BecomesWorld(W)
        /\ Ran("gathered", t.player, yield_amount,
               W.resourceNode.isDepleted /\ ~resourceNode.isDepleted, W)
        /\ yields' = [yields EXCEPT !.node =
                        IF W.players # players THEN @ + 1 ELSE @]

\* the respawn timer of the ResourceNodeEntity tree fires
NodeRespawnTimer ==
  /\ resourceNode.respawnTimeouts > 0
  /\ LET W == respawnNode([CurWorld EXCEPT !.resourceNode.respawnTimeouts = @ - 1])
     IN  /\ BecomesWorld(W)
         /\ Ran("respawnNode", "p1", 0, TRUE, W)
  /\ yields' = [yields EXCEPT !.node = 0]

\* an interaction with the TreeEntity tree
OnInteractCall ==
  \E p \in PlayerIds :
    /\ CanInteract(p)
    /\ LET W == onInteract(CurWorld, p, opCount + 1)
       IN  /\ BecomesWorld(W)
           /\ Called("onInteract", p, "wood", 0,
                     W.baseResource # baseResource, W.players)
    /\ UNCHANGED yields

\* the game cancels the harvest of the player who is harvesting
CancelHarvestCall ==
  \E p \in PlayerIds :
    /\ CanInteract(p)
    /\ baseResource.currentHarvester = p
    /\ LET W == cancelHarvest(CurWorld)
       IN  /\ BecomesWorld(W)
           /\ Called("cancelHarvest", p, "wood", 0, TRUE, W.players)
    /\ UNCHANGED yields

\* a harvest timer of the TreeEntity tree fires
HarvestTimerFires ==
  \E t \in baseResource.harvestTimers,
     yield_ \in {treeOptions.minYield, treeOptions.maxYield} :
    LET W0 == [CurWorld EXCEPT !.baseResource.harvestTimers = @ \ {t}]
        W == completeHarvest(W0, t.player, yield_)
    IN  /\ BecomesWorld(W)
        /\ Ran("harvested", t.player, yield_,
               W.baseResource.respawnTimeouts > baseResource.respawnTimeouts, W)
        /\ yields' = [yields EXCEPT !.base =
                        IF W.players # players THEN @ + 1 ELSE @]

\* a respawn timer of the TreeEntity tree fires
ResourceRespawnTimer ==
  /\ baseResource.respawnTimeouts > 0
  /\ LET W == respawn([CurWorld EXCEPT !.baseResource.respawnTimeouts = @ - 1])
     IN  /\ BecomesWorld(W)
         /\ Ran("respawn", "p1", 0, TRUE, W)
  /\ yields' = [yields EXCEPT !.base = 0]

NextNode ==
  \/ PlayerSpawn
  \/ FillInventoryCall
  \/ InteractCall
  \/ GatherPromiseResolves
  \/ NodeRespawnTimer
  \/ OnInteractCall
  \/ CancelHarvestCall
  \/ HarvestTimerFires
  \/ ResourceRespawnTimer

\* a timer that is set fires in the end
NodeSpec ==
  /\ Init
  /\ [][NextNode]_vars
  /\ WF_vars(NodeRespawnTimer)
  /\ WF_vars(ResourceRespawnTimer)

(***************************************************************************)
(* Properties                                                              *)
(***************************************************************************)
\* the cyclic order of the day
SuccessorPhase ==
  [p \in DayPhase |->
     CASE p = MORNING -> AFTERNOON
       [] p = AFTERNOON -> EVENING
       [] p = EVENING -> NIGHT
       [] p = NIGHT -> DAWN
       [] p = DAWN -> MORNING]

\* C1: every phase change made by a tick that comes less than one minute
\* after the previous one, or by skipToNextPhase, goes from the current phase
\* to its cyclic successor.
C1_PhaseOrder ==
  [][((Tick \/ SkipPhaseCmd) /\ currentPhase' # currentPhase)
       => currentPhase' = SuccessorPhase[currentPhase]]_vars

\* a tick has moved the phase from EVENING to NIGHT
C1_Witness ==
  /\ phaseEntry = [by |-> "tick", from |-> EVENING]
  /\ currentPhase = NIGHT

\* C1 without its proviso: a tick that comes late skips a phase
C1_LateTickKeepsOrder ==
  [][(LateTick /\ currentPhase' # currentPhase)
       => currentPhase' = SuccessorPhase[currentPhase]]_vars

\* C2: every time a tick or skipToNextPhase takes the phase of the running
\* cycle from DAWN to MORNING, currentNight is incremented once and the elapsed time restarts
\* from 0; and a tick increments currentNight only on that edge.
C2_CycleEdgeAdvancesNight ==
  [][/\ (/\ Tick \/ SkipPhaseCmd
         /\ isRunning
         /\ currentPhase = DAWN
         /\ currentPhase' = MORNING)
          => /\ gameState'.currentNight = gameState.currentNight + 1
             /\ elapsedMs' = 0
     /\ (Tick /\ gameState'.currentNight # gameState.currentNight)
          => (currentPhase = DAWN /\ currentPhase' = MORNING)]_vars

\* C3: when a cycle completion takes currentNight from 99 to 100, the game
\* is no longer started and the tick timer is stopped; from then on, while
\* the game is not started and the cycle is not running, the phase and the
\* elapsed time change only by /start, and ticks happen only while the cycle
\* is running.
C3_VictoryStops ==
  [][/\ (gameState.currentNight = 99 /\ gameState'.currentNight = 100)
          => (~gameState'.isStarted /\ ~isRunning' /\ ~tickInterval')
     /\ (/\ ~gameState.isStarted
         /\ ~isRunning
         /\ \/ currentPhase' # currentPhase
            \/ elapsedMs' # elapsedMs
            \/ isRunning')
          => StartCmd
     /\ (Tick /\ (vars' # vars)) => isRunning]_vars

\* the game has been won and has come to rest
C3_Witness ==
  /\ gameState.currentNight = 100
  /\ ~gameState.isStarted
  /\ ~isRunning
  /\ ~stopCallback

\* C4 as stated: currentNight changes only by +1 in a night advance, or by
\* the reset.
C4_OnlyAdvanceOrReset ==
  [][gameState'.currentNight # gameState.currentNight
       => \/ Tick /\ gameState'.currentNight = gameState.currentNight + 1
          \/ ResetCmd]_vars

\* C4 as amended: currentNight changes only by +1 in a night advance, to 1 by
\* the reset or by a fresh /start, or to the argument (1..99) of /skipnight.
C4_NightChanges ==
  [][gameState'.currentNight # gameState.currentNight
       => \/ Tick /\ gameState'.currentNight = gameState.currentNight + 1
          \/ ResetCmd /\ gameState'.currentNight = 1
          \/ StartCmd /\ ~gameState.isStarted /\ gameState'.currentNight = 1
          \/ SkipNightCmd /\ gameState'.currentNight \in 1..99]_vars

\* the night advance has just taken the counter past the last night
C4_Witness ==
  /\ gameState.currentNight = 100
  /\ stopCallback

\* the per-night cap of the claims: min(50, 10 + 2n)
NightCap(n) == IF 10 + 2 * n < 50 THEN 10 + 2 * n ELSE 50

\* an enemy entity was spawned in this step: the tracked set grows by
\* spawning only
EnemySpawned == activeEnemies' > activeEnemies

\* C5: an enemy is spawned only while the phase is NIGHT, and no spawn timer
\* is pending while the phase is not NIGHT.
C5_SpawnOnlyAtNight ==
  [][/\ EnemySpawned => currentPhase' = NIGHT
     /\ spawnInterval' # {} => currentPhase' = NIGHT]_vars

\* C6: right after the phase becomes NIGHT the NightManager is active with
\* its counter reset (nothing spawned yet and a spawn timer pending on a
\* normal night, the boss alone and no timer on a boss night), and right
\* after the phase becomes DAWN it is inactive.
C6_WaveFollowsPhase ==
  [][/\ (currentPhase # NIGHT /\ currentPhase' = NIGHT)
          => /\ isNightActive'
             /\ spawnLog'.normal = 0
             /\ \/ /\ spawnLog'.boss = 1
                   /\ enemiesSpawned' = 1
                   /\ spawnInterval' = {}
                \/ /\ spawnLog'.boss = 0
                   /\ enemiesSpawned' = 0
                   /\ spawnInterval' # {}
     /\ (currentPhase # DAWN /\ currentPhase' = DAWN) => ~isNightActive']_vars

\* C7: on a normal night n no more than min(50, 10 + 2n) enemies are
\* spawned, and the spawn tick that finds the count at the cap cancels the
\* timer and spawns nothing.
C7_PerNightCap ==
  [][/\ ~(spawnLog'.night \in {10, 25, 50, 75, 99})
          => spawnLog'.normal + spawnLog'.boss <= NightCap(spawnLog'.night)
     /\ (/\ SpawnTimerFires
         /\ ~(spawnLog.night \in {10, 25, 50, 75, 99})
         /\ spawnLog.normal >= NightCap(spawnLog.night))
          => (spawnInterval' = {} /\ ~EnemySpawned /\ spawnLog' = spawnLog)
     /\ (/\ spawnInterval # {}
         /\ spawnInterval' = {}
         /\ isNightActive')
          => spawnLog.normal = NightCap(spawnLog.night)]_vars

\* the cap of a late night was reached and the timer has cancelled itself
C7_Witness ==
  /\ isNightActive
  /\ spawnLog.night = 20
  /\ spawnLog.normal = 50
  /\ spawnInterval = {}

\* C8: never more than 15 enemies are tracked as active; a spawn tick that
\* finds 15 spawns nothing and counts nothing, so the tracked set grows again
\* only after an enemy was despawned.
C8_ConcurrentLimit ==
  [][/\ activeEnemies' <= 15
     /\ (SpawnTimerFires /\ activeEnemies = 15 /\ spawnInterval' # {})
          => UNCHANGED <<activeEnemies, enemiesSpawned, spawnLog>>
     /\ EnemySpawned => activeEnemies < 15]_vars

\* the limit holds a wave back: 15 tracked, more to come, the timer pending
C8_Witness ==
  /\ activeEnemies = 15
  /\ enemiesSpawned < maxEnemiesThisNight
  /\ spawnInterval # {}

\* C9: startNight(n) of an inactive NightManager spawns the boss, alone and
\* without a spawn timer, exactly when n is in {10, 25, 50, 75, 99}, and
\* nothing more is spawned that night; for every other n in 1..99 it starts
\* the spawn timer of night n and spawns no boss.
C9_BossNights ==
  [][/\ (~isNightActive /\ isNightActive')
          => IF spawnLog'.night \in {10, 25, 50, 75, 99}
             THEN /\ spawnLog'.boss = 1
                  /\ spawnLog'.normal = 0
                  /\ activeEnemies' = 1
                  /\ spawnInterval' = {}
             ELSE /\ spawnLog'.boss = 0
                  /\ spawnLog'.normal = 0
                  /\ activeEnemies' = 0
                  /\ \E t \in spawnInterval' : t.night = spawnLog'.night
     /\ spawnLog'.night \in {10, 25, 50, 75, 99}
          => (spawnLog'.boss = 1 /\ spawnLog'.normal = 0 /\ spawnInterval' = {})
     /\ ~(spawnLog'.night \in {10, 25, 50, 75, 99}) => spawnLog'.boss = 0]_vars

\* the boss of the last night is out and the night is still on
C9_Witness ==
  /\ isNightActive
  /\ spawnLog = [night |-> 99, normal |-> 0, boss |-> 1]
  /\ activeEnemies = 1

\* C10: endNight leaves no tracked enemy and no spawn timer, and nothing is
\* spawned while the NightManager is inactive.
C10_EndNightCleans ==
  [][/\ EndNightCall
          => (~isNightActive' /\ activeEnemies' = 0 /\ spawnInterval' = {})
     /\ ~isNightActive'
          => (activeEnemies' = 0 /\ spawnInterval' = {})
     /\ EnemySpawned => isNightActive']_vars

\* a wave was cut short by endNight: spawned, below its cap, now inactive
C10_Witness ==
  /\ ~isNightActive
  /\ spawnLog.normal > 0
  /\ spawnLog.normal < NightCap(spawnLog.night)
  /\ activeEnemies = 0
  /\ spawnInterval = {}

(***************************************************************************)
(* Inventory and crafting                                                  *)
(***************************************************************************)
\* the units of itemId that still fit into P's inventory
FreeCapacity(P, itemId) ==
  LET maxStack == itemsConfig[itemId].maxStack
  IN  maxStack * (MAX_INVENTORY_SLOTS - Len(P.inventory))
      + maxStack * Cardinality({i \in 1..Len(P.inventory) :
                                  P.inventory[i].itemId = itemId})
      - getItemCount(P, itemId)

ItemIds == DOMAIN itemsConfig

\* the step is a call of addItemToInventory, of tryCraft, the run of a
\* craft timer; lastCall' tells which
AddCalled == lastCall'.op = "add" /\ opCount' = opCount + 1

CraftCalled == lastCall'.op = "craft" /\ opCount' = opCount + 1

CraftCompleted == lastCall'.op = "complete" /\ craftTimers' # craftTimers

\* C11: every player's inventory has at most 24 slots, and every slot holds
\* between 1 and its item's maxStack units.
C11_InventoryBounds ==
  \A p \in PlayerIds :
    /\ Len(players[p].inventory) <= 24
    /\ \A i \in 1..Len(players[p].inventory) :
         LET slot == players[p].inventory[i]
         IN  /\ slot.itemId \in ItemIds
             /\ slot.quantity >= 1
             /\ slot.quantity <= itemsConfig[slot.itemId].maxStack

C11_Witness ==
  /\ lastCall.op = "stack"
  /\ Len(players[lastCall.player].inventory) = 24

\* C12: addItemToInventory(id, q) of a known item returns true exactly when
\* the count of id rose by q; when it returns false the count rose by the
\* free capacity for id, which is less than q; for an unknown id it returns
\* false and the player is unchanged.
C12_AddReturnsAllPlaced ==
  [][AddCalled =>
       LET p == lastCall'.player
           id == lastCall'.arg
           q == lastCall'.quantity
       IN  IF id \in ItemIds
           THEN /\ lastCall'.ok <=> (lastCall'.moved = q)
                /\ lastCall'.ok <=> (FreeCapacity(players[p], id) >= q)
                /\ ~lastCall'.ok =>
                     /\ lastCall'.moved = FreeCapacity(players[p], id)
                     /\ lastCall'.moved < q
                /\ getItemCount(players'[p], id)
                     = getItemCount(players[p], id) + lastCall'.moved
           ELSE /\ ~lastCall'.ok
                /\ players' = players]_vars

C12_Witness ==
  /\ lastCall.op = "add"
  /\ ~lastCall.ok
  /\ lastCall.moved > 0
  /\ lastCall.moved < lastCall.quantity

\* C13: in every state, for every item id and quantity q, if
\* addItemToInventory(id, q) returns true then removeItemFromInventory(id, q)
\* right after it returns true and every item's count is what it was.
C13_RoundTrip ==
  \A p \in PlayerIds, a \in AddArgs :
    LET added == addItemToInventory(players[p], a[1], a[2])
        removed == removeItemFromInventory(added.P, a[1], a[2])
    IN  added.ok =>
          /\ removed.ok
          /\ \A id \in ItemIds :
               getItemCount(removed.P, id) = getItemCount(players[p], id)

\* the add of the last call was spread over a slot that had room and a new
\* slot, and taking it back leaves the slots as they were before it
C13_Witness ==
  /\ lastCall.op = "add"
  /\ lastCall.ok
  /\ lastCall.arg = "torch"
  /\ lastCall.quantity = 10
  /\ \E i \in 1..Len(players[lastCall.player].inventory) - 1 :
       /\ players[lastCall.player].inventory[i] = [itemId |-> "torch", quantity |-> 10]
       /\ players[lastCall.player].inventory[i + 1] = [itemId |-> "torch", quantity |-> 5]
  /\ removeItemFromInventory(players[lastCall.player], "torch", 10).ok

\* the reasons for which tryCraft turns a request down
CraftRejected(p, recipeId) ==
  \/ recipeId \notin DOMAIN recipesConfig
  \/ \E j \in activeCrafts : j.playerId = p
  \/ \E i \in 1..Len(recipesConfig[recipeId].inputs) :
       getItemCount(players[p], recipesConfig[recipeId].inputs[i].itemId)
         < recipesConfig[recipeId].inputs[i].quantity

\* C14: tryCraft with an unknown recipe, by a player who is crafting, or with
\* an input missing returns false and leaves the players (inventory, XP),
\* the craft jobs and the craft timers as they were.
C14_RejectedCraftChangesNothing ==
  [][CraftCalled =>
       /\ CraftRejected(lastCall'.player, lastCall'.arg) <=> ~lastCall'.ok
       /\ ~lastCall'.ok =>
            /\ players' = players
            /\ activeCrafts' = activeCrafts
            /\ craftTimers' = craftTimers]_vars

\* a craft turned down for a missing input
C14_Witness ==
  /\ lastCall.op = "craft"
  /\ lastCall.arg = "craft_torch"
  /\ ~lastCall.ok
  /\ activeCrafts = {}
  /\ getItemCount(players[lastCall.player], "wood") < 2

\* C15: a successful tryCraft takes the inputs at once, hands over no output
\* and leaves one timer pending; the output is added when that timer fires,
\* once, and the job is removed then.
C15_OutputsOnlyWhenTimerFires ==
  [][/\ (CraftCalled /\ lastCall'.ok) =>
          LET p == lastCall'.player
              recipe == recipesConfig[lastCall'.arg]
          IN  /\ \A i \in 1..Len(recipe.inputs) :
                   getItemCount(players'[p], recipe.inputs[i].itemId)
                     = getItemCount(players[p], recipe.inputs[i].itemId)
                       - recipe.inputs[i].quantity
              /\ getItemCount(players'[p], recipe.output.itemId)
                   = getItemCount(players[p], recipe.output.itemId)
              /\ \E t \in craftTimers' \ craftTimers :
                   t.playerId = p /\ t.recipeId = lastCall'.arg
     /\ CraftCompleted =>
          LET p == lastCall'.player
              recipe == recipesConfig[lastCall'.arg]
          IN  /\ \E j \in activeCrafts :
                   j.playerId = p /\ j.recipeId = lastCall'.arg
              /\ ~\E j \in activeCrafts' : j.playerId = p
              /\ ~\E t \in craftTimers' : t.playerId = p
              /\ FreeCapacity(players[p], recipe.output.itemId)
                   >= recipe.output.quantity
                 => getItemCount(players'[p], recipe.output.itemId)
                      = getItemCount(players[p], recipe.output.itemId)
                        + recipe.output.quantity]_vars

C15_Witness ==
  /\ lastCall.op = "complete"
  /\ lastCall.moved = 1
  /\ getItemCount(players[lastCall.player], "torch") = 1
  /\ getItemCount(players[lastCall.player], "wood") = 8
  /\ players[lastCall.player].xp = 10

\* C16: a player has at most one craft job and one pending craft timer, the
\* timer of the job; a request of a player who is crafting is turned down
\* and leaves the jobs and the timers as they were.
C16_OneCraftPerPlayer ==
  [][/\ \A p \in PlayerIds :
          /\ Cardinality({t \in craftTimers' : t.playerId = p}) <= 1
          /\ Cardinality({j \in activeCrafts' : j.playerId = p}) <= 1
          /\ \A t \in craftTimers' :
               t.playerId = p =>
                 \E j \in activeCrafts' :
                   j.playerId = p /\ j.timeoutId = t.id
     /\ (CraftCalled /\ \E j \in activeCrafts : j.playerId = lastCall'.player)
          => /\ ~lastCall'.ok
             /\ activeCrafts' = activeCrafts
             /\ craftTimers' = craftTimers]_vars

\* both players are crafting and one of them asked again
C16_Witness ==
  /\ lastCall.op = "craft"
  /\ lastCall.arg = "craft_torch"
  /\ ~lastCall.ok
  /\ \A p \in PlayerIds :
       /\ \E j \in activeCrafts : j.playerId = p
       /\ \E t \in craftTimers : t.playerId = p

\* C17: when the craft timer fires and the output does not fit, the player's
\* inventory is as before (no output, no input back), no XP is granted, and
\* the job is cleared.
C17_LostWhenFull ==
  [][CraftCompleted =>
       LET p == lastCall'.player
           recipe == recipesConfig[lastCall'.arg]
       IN  FreeCapacity(players[p], recipe.output.itemId)
             < recipe.output.quantity
           => /\ players'[p].inventory = players[p].inventory
              /\ players'[p].xp = players[p].xp
              /\ players'[p].level = players[p].level
              /\ ~\E j \in activeCrafts' : j.playerId = p
              /\ ~\E t \in craftTimers' : t.playerId = p]_vars

C17_Witness ==
  /\ lastCall.op = "complete"
  /\ lastCall.moved = 0
  /\ Len(players[lastCall.player].inventory) = 24
  /\ getItemCount(players[lastCall.player], "wood") = 8
  /\ players[lastCall.player].xp = 0
  /\ activeCrafts = {}

(***************************************************************************)
(* Resource nodes                                                          *)
(***************************************************************************)
\* the step is an interaction with the ResourceNodeEntity tree, with the
\* TreeEntity tree, the end of a gather, of a harvest
Interacted == lastCall'.op = "interact" /\ opCount' = opCount + 1

OnInteracted == lastCall'.op = "onInteract" /\ opCount' = opCount + 1

Gathered ==
  /\ lastCall'.op = "gathered"
  /\ resourceNode'.gatherPromises # resourceNode.gatherPromises

Harvested ==
  /\ lastCall'.op = "harvested"
  /\ baseResource'.harvestTimers # baseResource.harvestTimers

\* C18: a node has at most one gather in progress; an interaction that
\* arrives while one is in progress, from any player, leaves the node as it
\* is; and a node gives items at most once between becoming available and
\* becoming depleted.  For both node classes.
C18_OneGatherPerNode ==
  [][/\ Cardinality(resourceNode'.gatherPromises) <= 1
     /\ Cardinality(baseResource'.harvestTimers) <= 1
     /\ (Interacted /\ resourceNode.isBeingGathered)
          => resourceNode' = resourceNode
     /\ (OnInteracted /\ baseResource.currentHarvester # "")
          => baseResource' = baseResource
     /\ yields'.node <= 1
     /\ yields'.base <= 1]_vars

\* C19: a node becomes depleted only when a gather ends with its whole yield
\* added to the gatherer's inventory; an interaction with a depleted node
\* changes nothing; a depleted node becomes available only when a respawn
\* timer fires, and it does become available again.  For both node classes.
C19_AvailableDepletedCycle ==
  /\ [][/\ (~resourceNode.isDepleted /\ resourceNode'.isDepleted)
             => /\ Gathered
                /\ lastCall'.moved = lastCall'.quantity
        /\ (~baseResource.isDepleted /\ baseResource'.isDepleted)
             => /\ Harvested
                /\ lastCall'.moved = lastCall'.quantity
        /\ (Interacted /\ resourceNode.isDepleted)
             => UNCHANGED <<resourceNode, players, resourcesGathered>>
        /\ (OnInteracted /\ baseResource.isDepleted)
             => UNCHANGED <<baseResource, players, resourcesGathered>>
        /\ (resourceNode.isDepleted /\ ~resourceNode'.isDepleted)
             => resourceNode'.respawnTimeouts = resourceNode.respawnTimeouts - 1
        /\ (baseResource.isDepleted /\ ~baseResource'.isDepleted)
             => baseResource'.respawnTimeouts = baseResource.respawnTimeouts - 1]_vars
  /\ (resourceNode.isDepleted ~> ~resourceNode.isDepleted)
  /\ (baseResource.isDepleted ~> ~baseResource.isDepleted)

\* the tree was gathered from, respawned, and is being gathered from again
C19_Witness ==
  /\ resourcesGathered = 1
  /\ ~resourceNode.isDepleted
  /\ resourceNode.respawnTimeouts = 0
  /\ resourceNode.isBeingGathered
  /\ lastCall.op = "interact"
  /\ lastCall.ok

(***************************************************************************)
(* TimeManager.start and TimeManager.stop                                  *)
(***************************************************************************)
\* C20: start called while the cycle is running leaves the elapsed time,
\* the phase and the tick timer as they are, there is never more than one
\* tick timer, and stop called while the cycle is not running changes
\* nothing.
C20_StartIdempotentStopSafe ==
  [][/\ (TimeStartCall /\ isRunning)
          => UNCHANGED <<elapsedMs, currentPhase, isRunning, tickInterval,
                         tickTimers>>
     /\ tickTimers' <= 1
     /\ (TimeStopCall /\ ~isRunning) => UNCHANGED gameVars]_vars

\* start was called in the middle of a running cycle
C20_Witness ==
  /\ lastCall.op = "start"
  /\ ~lastCall.ok
  /\ isRunning
  /\ elapsedMs > 0
  /\ currentPhase # MORNING
  /\ tickTimers = 1

(***************************************************************************)
(* The saved game state                                                    *)
(***************************************************************************)
\* C21: every operation that changes the game state saves it, so that when
\* the operation has finished the saved state is the state in memory.
C21_EveryMutationSaved ==
  [][gameState' # gameState => savedGameState' = <<gameState'>>]_vars

(***************************************************************************)
(* Music                                                                   *)
(***************************************************************************)
\* a boss night is on and its boss is in the world
BossAlive == isNightActive /\ isBossNight(spawnLog.night) /\ boss # "none"

\* C22: at most one music track plays, and while the cycle runs and no
\* callback is pending the music state is the one of the current phase,
\* or "boss" in a boss night whose boss is alive.
C22_MusicFollowsPhase ==
  /\ Cardinality(audio.playing) <= 1
  /\ (Idle /\ isRunning)
       => \/ audio.currentState = stateMap[currentPhase]
          \/ audio.currentState = "boss" /\ BossAlive

(***************************************************************************)
(* Runes                                                                   *)
(***************************************************************************)
\* the step is a call of equipRune, of unequipRune
EquipCalled == lastCall'.op = "equipRune" /\ opCount' = opCount + 1

UnequipCalled == lastCall'.op = "unequipRune" /\ opCount' = opCount + 1

\* C23: a rune list never holds more than 3 runes nor the same rune twice;
\* equipRune returns false and changes nothing when 3 runes are equipped or
\* the rune is equipped already, and unequipRune returns false and changes
\* nothing when the rune is not equipped.
C23_RuneList ==
  [][/\ \A p \in PlayerIds :
          /\ Len(players'[p].runes) <= 3
          /\ \A i, j \in 1..Len(players'[p].runes) :
               players'[p].runes[i] = players'[p].runes[j] => i = j
     /\ \A p \in PlayerIds :
          (/\ EquipCalled
           /\ lastCall'.player = p
           /\ \/ Len(players[p].runes) >= 3
              \/ includes(players[p].runes, lastCall'.arg))
            => ~lastCall'.ok /\ players' = players
     /\ \A p \in PlayerIds :
          (/\ UnequipCalled
           /\ lastCall'.player = p
           /\ ~includes(players[p].runes, lastCall'.arg))
            => ~lastCall'.ok /\ players' = players]_vars

\* a fourth rune was refused to a player who has three
C23_Witness ==
  /\ lastCall.op = "equipRune"
  /\ ~lastCall.ok
  /\ Len(players[lastCall.player].runes) = 3
  /\ ~includes(players[lastCall.player].runes, lastCall.arg)

(***************************************************************************)
(* The attacks of an enemy                                                 *)
(***************************************************************************)
\* the step applies damage of the enemy to a player
DamageApplied == damageLog'.count = damageLog.count + 1

\* C24: between two damage applications of an enemy at least 1000 ms pass,
\* and an enemy that has died applies no damage.
C24_AttackCooldown ==
  [][DamageApplied
       => /\ damageLog.count > 0 => now - damageLog.at >= 1000
          /\ ~enemy.isDead]_vars

\* the enemy attacked a second time, exactly 1000 ms after the first
C24_Witness ==
  /\ damageLog.count = 2
  /\ lastCall.op = "collision"
  /\ lastCall.ok
  /\ damageLog.at = now
  /\ \E p \in PlayerIds : players[p].spawned /\ players[p].health = 90

(***************************************************************************)
(* The cap and the spawn interval of a night                               *)
(***************************************************************************)
\* min(50, 10 + 2n) and max(1500, 5000 - 100n), written out
capOfNight(n) == IF 10 + 2 * n < 50 THEN 10 + 2 * n ELSE 50

intervalOfNight(n) == IF 5000 - 100 * n > 1500 THEN 5000 - 100 * n ELSE 1500

\* the two functions of NightManager on every night of the game
FormulasOnEveryNight ==
  /\ \A n \in 1..99 :
       /\ calculateMaxEnemies(n) = capOfNight(n)
       /\ calculateSpawnRate(n) = intervalOfNight(n)
       /\ n >= 20 => calculateMaxEnemies(n) = 50
       /\ n >= 35 => calculateSpawnRate(n) = 1500
  /\ calculateMaxEnemies(1) = 12
  /\ calculateSpawnRate(1) = 4900
  /\ \A n \in 1..98 :
       /\ calculateMaxEnemies(n) <= calculateMaxEnemies(n + 1)
       /\ calculateSpawnRate(n) >= calculateSpawnRate(n + 1)

phaseAt(e) ==
  IF e < 240000 THEN MORNING
  ELSE IF e < 420000 THEN AFTERNOON
  ELSE IF e < 480000 THEN EVENING
  ELSE IF e < 780000 THEN NIGHT
  ELSE IF e < 840000 THEN DAWN
  ELSE MORNING

\* C26: the phase is a function of the elapsed time alone: MORNING below
\* 4 min, AFTERNOON below 7, EVENING below 8, NIGHT below 13, DAWN below 14,
\* and MORNING again from 14 min on; in every state, and so after every
\* tick, on time or late, the current phase is this function of the elapsed
\* time, and a tick leaves less than 14 min elapsed.
C26_PhaseOfElapsedTime ==
  /\ currentPhase = phaseAt(elapsedMs)
  /\ elapsedMs <= 840000
  /\ isRunning =>
       \A delta \in OnTimeDeltas \cup LateDeltas :
         LET ticked == tick(Cur, delta)
         IN /\ ticked.currentPhase = phaseAt(ticked.elapsedMs)
            /\ ticked.elapsedMs < 840000

\* a tick has taken the elapsed time to exactly 7 min and the phase to
\* EVENING
C26_Witness ==
  /\ phaseEntry = [by |-> "tick", from |-> AFTERNOON]
  /\ elapsedMs = 420000
  /\ currentPhase = EVENING

(***************************************************************************)
(* The enemy types of a night                                              *)
(***************************************************************************)
\* C27: every enemy a spawn tick spawns during night n, the night startNight
\* was called with, has a configured minNight of at most n; wispling is the
\* only type with a minNight of at most 1, and every enemy spawned during
\* night 1 is a wispling.
C27_SpawnedTypeOldEnough ==
  /\ lastSpawned # "none" =>
       /\ enemyMinNight[lastSpawned] <= spawnLog.night
       /\ spawnLog.night = 1 => lastSpawned = "wispling"
       /\ spawnLog.normal > 0
  /\ {e \in DOMAIN enemyMinNight : enemyMinNight[e] <= 1} = {"wispling"}

\* the timer of night 7 has spawned a shadow_wolf, which night 7 is the
\* first to allow
C27_Witness ==
  /\ isNightActive
  /\ spawnLog.night = 7
  /\ lastSpawned = "shadow_wolf"
  /\ enemiesSpawned > 1

(***************************************************************************)
(* The stats of a player                                                   *)
(***************************************************************************)
\* C28: the maximum health of a player in the world is 100 + 10 for every
\* level gained, and the health is between 0 and the maximum health, in
\* every reachable state: over takeDamage, heal, regeneration, level-up,
\* death and respawn, and leaving and rejoining the world.
C28_HealthWithinMaximum ==
  \A p \in PlayerIds :
    players[p].spawned =>
      /\ players[p].maxHealth = 100 + 10 * (players[p].level - 1)
      /\ 0 <= players[p].health
      /\ players[p].health <= players[p].maxHealth

\* C29: a player levels up every 100 XP: at every level, a call of addXP
\* that brings the XP counter to 100 or more raises the level by exactly 1
\* and resets the counter to 0, and a call that leaves the counter below
\* 100 does not change the level.
C29_LevelUpEvery100XP ==
  [][AddXPCall =>
       LET p == lastCall'.player
           counter == players[p].xp + lastCall'.quantity
       IN IF counter >= 100
          THEN /\ players'[p].level = players[p].level + 1
               /\ players'[p].xp = 0
          ELSE /\ players'[p].level = players[p].level
               /\ players'[p].xp = counter]_vars

(***************************************************************************)
(* startNight while a night is active                                      *)
(***************************************************************************)
\* C30: while the NightManager is active, startNight(n) changes nothing,
\* whatever n is: the spawned counter, the per-night cap, the tracked
\* enemies and the spawn timer stay as they are and no second timer is
\* created; at most one spawn timer exists at any time.
C30_StartNightWhileActive ==
  /\ isNightActive =>
       \A nightNumber \in ActiveNightArgs :
         LET again == startNight(Cur, nightNumber)
         IN /\ again.enemiesSpawned = enemiesSpawned
            /\ again.maxEnemiesThisNight = maxEnemiesThisNight
            /\ again.activeEnemies = activeEnemies
            /\ again.boss = boss
            /\ again.spawnInterval = spawnInterval
            /\ again.spawnTimers = spawnTimers
            /\ again = Cur
  /\ spawnTimers <= 1
  /\ spawnTimers = Cardinality(spawnInterval)

\* a wave is under way, with enemies spawned and alive and its timer
\* pending, and a call of startNight is answered by the early return
C30_Witness ==
  /\ isNightActive
  /\ spawnLog.night = 2
  /\ enemiesSpawned = 3
  /\ activeEnemies = 2
  /\ spawnTimers = 1
  /\ startNight(Cur, 10) = Cur

RemoveCalled == lastCall'.op = "remove" /\ opCount' = opCount + 1

\* the index in inv of the k-th slot that holds id, 0 for k = 0
RECURSIVE SlotOf(_, _, _, _)
SlotOf(inv, id, k, i) ==
  IF k = 0 THEN 0
  ELSE IF inv[i].itemId = id
  THEN (IF k = 1 THEN i ELSE SlotOf(inv, id, k - 1, i + 1))
  ELSE SlotOf(inv, id, k, i + 1)

\* C32: removeItemFromInventory(id, q) takes the units from the slots that
\* hold id last slot first, deletes every slot it empties, leaves the slots
\* of the other items and the order of the slots as they are, and returns
\* true exactly when the inventory held at least q units of id; the count of
\* id then drops by exactly q.
C32_RemoveLastSlotsFirst ==
  [][RemoveCalled =>
       LET p == lastCall'.player
           id == lastCall'.arg
           q == lastCall'.quantity
           before == players[p].inventory
           after == players'[p].inventory
           holds(slot) == slot.itemId = id
           other(slot) == slot.itemId # id
           kept == Len(SelectSeq(after, holds))
           last == SlotOf(before, id, kept, 1)
       IN  /\ lastCall'.ok <=> (getItemCount(players[p], id) >= q)
           /\ lastCall'.ok => lastCall'.moved = 0 - q
           /\ SelectSeq(after, other) = SelectSeq(before, other)
           /\ kept <= Len(SelectSeq(before, holds))
           /\ \A i \in 1..Len(after) : after[i].quantity >= 1
           /\ \A i \in 1..last :
                /\ after[i].itemId = before[i].itemId
                /\ i < last => after[i] = before[i]
                /\ after[i].quantity <= before[i].quantity
           /\ SubSeq(after, last + 1, Len(after))
                = SelectSeq(SubSeq(before, last + 1, Len(before)), other)]_vars

\* 15 torches were taken from two stacks of 10: the last stack is gone and
\* the one before it is left with 5
C32_Witness ==
  /\ lastCall = [op |-> "remove", player |-> "p1", arg |-> "torch",
                 quantity |-> 15, ok |-> TRUE, moved |-> 0 - 15]
  /\ players["p1"].inventory
       = <<[itemId |-> "wood", quantity |-> 10],
           [itemId |-> "stone", quantity |-> 5],
           [itemId |-> "torch", quantity |-> 5]>>

C34_PhasesAgree == isRunning => gameState.currentPhase = currentPhase

(***************************************************************************)
(* skipToNextPhase while the cycle is not running                          *)
(***************************************************************************)
\* C35: when the time cycle is not running, skipToNextPhase does nothing:
\* /skipphase leaves the phase and the elapsed time of the TimeManager, the
\* phase of the GameManager and the state of the NightManager as they are.
C35_SkipNeedsRunningCycle ==
  [][(SkipPhaseCmd /\ ~isRunning)
       => UNCHANGED <<currentPhase, elapsedMs, gameState, isNightActive,
                      spawnInterval, enemiesSpawned, activeEnemies,
                      maxEnemiesThisNight, boss>>]_vars

(***************************************************************************)
(* cancelCraft                                                             *)
(***************************************************************************)
\* the step is a call of cancelCraft
CancelCalled == lastCall'.op = "cancel" /\ opCount' = opCount + 1

\* C36: cancelCraft of a player with an active job returns true and clears
\* the job and its timer, so that the output of the cancelled craft is never
\* delivered; the inputs are not given back, and a new tryCraft of the
\* player is not turned down for crafting.  cancelCraft of a player with no
\* active job returns false and changes nothing.
C36_CancelClearsJobAndTimer ==
  [][CancelCalled =>
       LET p == lastCall'.player
           after == [players |-> players', activeCrafts |-> activeCrafts',
                     craftTimers |-> craftTimers']
       IN  /\ lastCall'.ok <=> (\E j \in activeCrafts : j.playerId = p)
           /\ players' = players
           /\ lastCall'.ok =>
                /\ ~\E j \in activeCrafts' : j.playerId = p
                /\ ~\E t \in craftTimers' : t.playerId = p
                /\ \A q \in PlayerIds \ {p} :
                     /\ {j \in activeCrafts' : j.playerId = q}
                          = {j \in activeCrafts : j.playerId = q}
                     /\ {t \in craftTimers' : t.playerId = q}
                          = {t \in craftTimers : t.playerId = q}
                /\ \A recipeId \in DOMAIN recipesConfig :
                     hasRecipeInputs(players'[p], recipeId)
                       => tryCraft(after, p, recipeId, opCount' + 1).ok
           /\ ~lastCall'.ok =>
                /\ activeCrafts' = activeCrafts
                /\ craftTimers' = craftTimers]_vars

\* a player started a craft and cancelled it: the wood of the craft is
\* gone, no torch and no XP came, and neither job nor timer is left
C36_Witness ==
  /\ lastCall.op = "cancel"
  /\ lastCall.ok
  /\ getItemCount(players[lastCall.player], "wood") = 8
  /\ getItemCount(players[lastCall.player], "torch") = 0
  /\ players[lastCall.player].xp = 0
  /\ activeCrafts = {}
  /\ craftTimers = {}

(***************************************************************************)
(* transferItems                                                           *)
(***************************************************************************)
\* the step is a call of transferItems
TransferCalled == lastCall'.op = "transfer" /\ opCount' = opCount + 1

\* C37: transferItems(from, to, id, q) between two distinct players either
\* returns true with from's count of id lowered by q and to's count raised
\* by q, or returns false with both inventories as before; the count of id
\* of the two players together never changes.
C37_TransferConservesItems ==
  [][TransferCalled =>
       LET from == lastCall'.player
           to == CHOOSE p \in PlayerIds : p # from
           id == lastCall'.arg
           q == lastCall'.quantity
       IN  /\ lastCall'.ok =>
                /\ getItemCount(players'[from], id)
                     = getItemCount(players[from], id) - q
                /\ getItemCount(players'[to], id)
                     = getItemCount(players[to], id) + q
           /\ ~lastCall'.ok =>
                /\ players'[from].inventory = players[from].inventory
                /\ players'[to].inventory = players[to].inventory
           /\ getItemCount(players'[from], id) + getItemCount(players'[to], id)
                = getItemCount(players[from], id) + getItemCount(players[to], id)
    ]_vars

(***************************************************************************)
(* The despawns of an enemy                                                *)
(***************************************************************************)
\* C38: an enemy is despawned at most once: whatever the order of its death,
\* the despawn timer of its death and endNight, despawn() is never called on
\* an enemy that has been despawned already.
C38_DespawnedOnce == ~enemy.despawnedAgain

(***************************************************************************)
(* The boss's despawn listener                                             *)
(***************************************************************************)
\* the music states whose switch the step has deferred
Deferred ==
  {musicCallbacks'[i] : i \in (Len(musicCallbacks) + 1)..Len(musicCallbacks')}

\* C39: the boss's despawn listener, which announces the defeat of the boss
\* and defers the switch of the music to "night", runs only when the boss
\* was killed: a step that ends the night, despawning a boss that is alive,
\* defers no switch to "night".
C39_DefeatOnlyWhenKilled ==
  [][(isNightActive /\ ~isNightActive' /\ boss = "tracked")
       => "night" \notin Deferred]_vars

(***************************************************************************)
(* The deaths of a player                                                  *)
(***************************************************************************)
\* C40: a player dies once per death: from the death on no further death is
\* triggered until the respawn has run, so that at most one respawn of a
\* player is pending at any time.
C40_OneDeathAtATime ==
  \A p \in PlayerIds : players[p].respawnTimers <= 1

====
